---- MODULE Spec2Model ----
(***************************************************************************)
(* Model of the eco-tracker prediction and recommendation core:            *)
(*   src/ml_models.py          CarbonFootprintPredictor                    *)
(*   src/carbon_calculator.py  CarbonFootprintCalculator                   *)
(*   src/ai_recommendations.py AIRecommendationEngine                      *)
(*                                                                         *)
(* Units.  Activity amounts are counted in tenths, emission factors in     *)
(* thousandths, so calculator emissions are integers in units of 1e-4 kg.  *)
(* Emissions handed to the recommendation engine are integers in kg.       *)
(***************************************************************************)
EXTENDS Integers, Sequences, FiniteSets, TLC

VARIABLES
    models,         \* self.models        : variant name -> fitted model
    scalers,        \* self.scalers       : "features" -> scaler
    encoders,       \* self.encoders      : categorical column -> encoder
    feature_names,  \* self.feature_names : list of column names
    train,          \* the train_models call in progress (position, dataset, results)
    nTrain,         \* number of train_models calls started so far
    out,            \* outcome of the last completed predictor call
    calc,           \* last calculator call (input, breakdown)
    rec,            \* last recommendation-engine call
    fc,             \* last forecast call
    db,             \* the SQLite store: daily_footprints rows and its AUTOINCREMENT counter
    dm,             \* last DataManager call
    rnd,            \* the process-level numpy random source
    gen             \* last call that touches the random source, and the datasets returned so far

vars == <<models, scalers, encoders, feature_names, train, nTrain, out, calc, rec, fc,
          db, dm, rnd, gen>>

(***************************************************************************)
(* Bounds                                                                  *)
(***************************************************************************)
MaxTrain == 2       \* train_models calls per behaviour
MaxRows == 7        \* dataset sizes 0..MaxRows

(***************************************************************************)
(* Small helpers                                                           *)
(***************************************************************************)
Min(a, b) == IF a <= b THEN a ELSE b
Max(a, b) == IF a >= b THEN a ELSE b
Abs(a) == IF a < 0 THEN -a ELSE a
Range(s) == {s[i] : i \in DOMAIN s}
EmptyMap == [k \in {} |-> 0]
Put(m, k, v) == [x \in (DOMAIN m) \cup {k} |-> IF x = k THEN v ELSE m[x]]

(***************************************************************************)
(* CarbonFootprintPredictor                                                *)
(***************************************************************************)
\* models_to_train, in dictionary (insertion) order
VariantOrder == <<"random_forest", "gradient_boosting", "xgboost", "lightgbm">>
Variants == Range(VariantOrder)
\* a name that train_models never registers
VariantInputs == Variants \cup {"linear_regression"}

categorical_cols == <<"location_type", "vehicle_type">>

\* the columns of a dataset other than the target, in DataFrame order
FeatureCols == <<"age", "income", "household_size", "location_type",
                 "car_miles_per_week", "public_transport_usage",
                 "flights_per_year", "vehicle_type",
                 "electricity_kwh_monthly", "natural_gas_therms_monthly",
                 "home_size_sqft", "renewable_energy", "meat_meals_per_week",
                 "local_food_percentage", "organic_food_percentage",
                 "waste_kg_per_week", "recycling_percentage", "composting">>

\* the values generate_synthetic_data draws the categorical columns from
LocationTypes == <<"urban", "suburban", "rural">>
VehicleTypes == <<"gasoline", "diesel", "electric", "hybrid">>

\* A dataset is identified by the train_models call that passed it (id), by
\* its row count (rows) and by the values its categorical columns hold
\* (classes).
NoClasses == [location_type |-> {}, vehicle_type |-> {}]

\* the categorical values of a dataset of the given size: none in an empty one,
\* otherwise one value per column or, with enough rows, all of them
DatasetClasses(rows) ==
    IF rows = 0 THEN {NoClasses}
    ELSE {[location_type |-> {"urban"}, vehicle_type |-> {"gasoline"}]}
         \cup (IF rows >= Len(VehicleTypes)
               THEN {[location_type |-> Range(LocationTypes),
                      vehicle_type |-> Range(VehicleTypes)]}
               ELSE {})

\* the categorical part of the feature vectors passed to predict_footprint
UserData ==
    {[location_type |-> "urban", vehicle_type |-> "gasoline"],
     [location_type |-> "rural", vehicle_type |-> "hybrid"]}

\* sklearn train_test_split(test_size=0.2): n_test = ceil(0.2 n), n_train = n - n_test
TestRows(n) == (n + 4) \div 5
TrainRows(n) == n - TestRows(n)
\* cross_val_score(cv=5) needs at least 5 training rows
CvFolds == 5

Idle == [pc |-> "idle", ds |-> [id |-> 0, rows |-> 0, classes |-> NoClasses], i |-> 0,
         results |-> {}]

NoOut == [op |-> "none", kind |-> "none", err |-> "", msg |-> "",
          variant |-> "", preModels |-> {}, gens |-> {}, rows |-> 0, report |-> {},
          user_data |-> EmptyMap, result |-> FALSE]

NoCalc == [op |-> "none", input |-> EmptyMap, result |-> EmptyMap, base |-> EmptyMap,
           unknown |-> 0]

NoRec == [op |-> "none", footprint |-> <<>>, kind |-> "none", err |-> "",
          list |-> <<>>, plan |-> <<>>, tips |-> <<>>, comparisons |-> EmptyMap,
          category |-> "", text |-> "", action_key |-> "", difficulty |-> "",
          emissions |-> 0, impact |-> 0, priority |-> 0,
          history |-> <<>>, patterns |-> <<>>, opportunities |-> <<>>]

NoFc == [op |-> "none", history |-> <<>>, days_ahead |-> 0, kind |-> "none",
         err |-> "", values |-> <<>>, den |-> 1]

\* the store after ensure_db_exists on a new file
EmptyDb == [daily_footprints |-> <<>>, seq |-> 0]

NoDm == [op |-> "none", user_id |-> 0, date |-> <<>>, footprint_data |-> EmptyMap,
         days |-> 0, pre |-> EmptyDb, history |-> <<>>, sessions |-> <<>>]

\* the random source before any seed call: seeded from OS entropy; after
\* seed(42) it yields the stream of that seed from position pos on.  stream is
\* the part of that stream read so far.
Unseeded == [seeded |-> FALSE, pos |-> 0, stream |-> <<>>]

NoGen == [op |-> "none", n |-> 0, data |-> <<>>, repeat |-> FALSE, returned |-> EmptyMap]

Raise(op, e, m) == [NoOut EXCEPT !.op = op, !.kind = "raise", !.err = e, !.msg = m]

Init ==
    /\ models = EmptyMap
    /\ scalers = EmptyMap
    /\ encoders = EmptyMap
    /\ feature_names = <<>>
    /\ train = Idle
    /\ nTrain = 0
    /\ db = EmptyDb
    /\ dm = NoDm
    /\ rnd = Unseeded
    /\ gen = NoGen
    /\ out = NoOut
    /\ calc = NoCalc
    /\ rec = NoRec
    /\ fc = NoFc

\* train_models is entered: preprocess_data(df, is_training=True) starts
TrainCall(rows, classes) ==
    /\ train.pc = "idle"
    /\ nTrain < MaxTrain
    /\ nTrain' = nTrain + 1
    /\ train' = [pc |-> "encode", ds |-> [id |-> nTrain + 1, rows |-> rows, classes |-> classes],
                 i |-> 1, results |-> {}]
    /\ UNCHANGED <<models, scalers, encoders, feature_names, out, calc, rec, fc, db, dm, rnd, gen>>

\* preprocess_data, one categorical column: a new LabelEncoder is stored and
\* fitted; its classes are the values the column holds
TrainEncode ==
    /\ train.pc = "encode"
    /\ encoders' = Put(encoders, categorical_cols[train.i],
                       [gen |-> train.ds.id, fitted |-> TRUE,
                        classes |-> train.ds.classes[categorical_cols[train.i]]])
    /\ train' = IF train.i < Len(categorical_cols)
                THEN [train EXCEPT !.i = train.i + 1]
                ELSE [train EXCEPT !.pc = "features", !.i = 0]
    /\ UNCHANGED <<models, scalers, feature_names, nTrain, out, calc, rec, fc, db, dm, rnd, gen>>

\* preprocess_data: the feature list and a new, still unfitted StandardScaler are stored
TrainFeatures ==
    /\ train.pc = "features"
    /\ feature_names' = FeatureCols
    /\ scalers' = Put(scalers, "features", [gen |-> train.ds.id, fitted |-> FALSE])
    /\ train' = [train EXCEPT !.pc = "scale"]
    /\ UNCHANGED <<models, encoders, nTrain, out, calc, rec, fc, db, dm, rnd, gen>>

\* preprocess_data: StandardScaler.fit_transform; sklearn rejects an array of 0 rows
TrainScale ==
    /\ train.pc = "scale"
    /\ IF train.ds.rows = 0
       THEN /\ out' = [Raise("train", "ValueError", "Found array with 0 sample(s)")
                          EXCEPT !.rows = train.ds.rows]
            /\ train' = Idle
            /\ UNCHANGED scalers
       ELSE /\ scalers' = Put(scalers, "features", [gen |-> train.ds.id, fitted |-> TRUE])
            /\ train' = [train EXCEPT !.pc = "split"]
            /\ UNCHANGED out
    /\ UNCHANGED <<models, encoders, feature_names, nTrain, calc, rec, fc, db, dm, rnd, gen>>

\* train_models: train_test_split; sklearn rejects a split that leaves no training row
TrainSplit ==
    /\ train.pc = "split"
    /\ IF TrainRows(train.ds.rows) = 0
       THEN /\ out' = [Raise("train", "ValueError", "resulting train set will be empty")
                          EXCEPT !.rows = train.ds.rows]
            /\ train' = Idle
       ELSE /\ train' = [train EXCEPT !.pc = "fit", !.i = 1]
            /\ UNCHANGED out
    /\ UNCHANGED <<models, scalers, encoders, feature_names, nTrain, calc, rec, fc, db, dm, rnd, gen>>

\* train_models, one loop iteration: fit, evaluate, cross-validate, then store
TrainFit ==
    /\ train.pc = "fit"
    /\ IF TrainRows(train.ds.rows) < CvFolds
       THEN /\ out' = [Raise("train", "ValueError", "n_splits greater than the number of samples")
                          EXCEPT !.rows = train.ds.rows]
            /\ train' = Idle
            /\ UNCHANGED models
       ELSE /\ models' = Put(models, VariantOrder[train.i], [gen |-> train.ds.id])
            /\ train' = IF train.i < Len(VariantOrder)
                        THEN [train EXCEPT !.i = train.i + 1,
                                           !.results = train.results \cup {VariantOrder[train.i]}]
                        ELSE [train EXCEPT !.pc = "return", !.i = 0,
                                           !.results = train.results \cup {VariantOrder[train.i]}]
            /\ UNCHANGED out
    /\ UNCHANGED <<scalers, encoders, feature_names, nTrain, calc, rec, fc, db, dm, rnd, gen>>

\* train_models returns the per-variant metrics report
TrainReturn ==
    /\ train.pc = "return"
    /\ out' = [NoOut EXCEPT !.op = "train", !.kind = "return",
                            !.rows = train.ds.rows, !.report = train.results]
    /\ train' = Idle
    /\ UNCHANGED <<models, scalers, encoders, feature_names, nTrain, calc, rec, fc, db, dm, rnd, gen>>

\* variant of the guard that only asks whether anything was trained
ModelMissing_AnyTrained(model_name, ms) == DOMAIN ms = {}

\* CarbonFootprintPredictor.predict_footprint / get_feature_importance, line 164 / 180:
\* "model_name not in self.models"
ModelMissing(model_name, ms) == model_name \notin DOMAIN ms

\* the generations (dataset ids) of the encoders and of the scaler a prediction applies
PreprocessGens(sc, en) ==
    {en[c].gen : c \in DOMAIN en} \cup {sc[k].gen : k \in DOMAIN sc}

\* predict_footprint(user_data, model_name) on a complete feature vector;
\* LabelEncoder.transform rejects a value that is not among its classes
predict_footprint(user_data, model_name, ms, sc, en, fn) ==
    LET tag(o) == [o EXCEPT !.variant = model_name, !.preModels = DOMAIN ms,
                            !.user_data = user_data] IN
    IF ModelMissing(model_name, ms)
    THEN tag(Raise("predict", "ValueError", "Model not trained yet"))
    ELSE IF \E col \in DOMAIN en : user_data[col] \notin en[col].classes
    THEN tag(Raise("predict", "ValueError", "y contains previously unseen labels"))
    ELSE IF "features" \in DOMAIN sc /\ ~sc["features"].fitted
    THEN tag(Raise("predict", "NotFittedError", "StandardScaler is not fitted yet"))
    ELSE IF "features" \in DOMAIN sc /\ fn = <<>>
    THEN tag(Raise("predict", "ValueError", "Found array with 0 feature(s)"))
    ELSE IF model_name \notin DOMAIN ms
    THEN tag(Raise("predict", "KeyError", model_name))
    ELSE IF fn = <<>>
    THEN tag(Raise("predict", "ValueError", "Found array with 0 feature(s)"))
    ELSE tag([NoOut EXCEPT !.op = "predict", !.kind = "return",
                           !.gens = PreprocessGens(sc, en) \cup {ms[model_name].gen}])

\* get_feature_importance(model_name); every trained variant is a tree ensemble
\* and has feature_importances_
get_feature_importance(model_name, ms, fn) ==
    LET tag(o) == [o EXCEPT !.variant = model_name, !.preModels = DOMAIN ms] IN
    IF ModelMissing(model_name, ms)
    THEN tag(Raise("importance", "ValueError", "Model not trained yet"))
    ELSE IF model_name \notin DOMAIN ms
    THEN tag(Raise("importance", "KeyError", model_name))
    ELSE tag([NoOut EXCEPT !.op = "importance", !.kind = "return",
                           !.gens = {ms[model_name].gen}])

\* what preprocess_data(df, is_training) leaves in the predictor when df is
\* the one-row frame of a prediction: with is_training it stores new encoders
\* and a new scaler fitted on that row (generation -1) and the column list,
\* without it nothing is assigned
preprocess_data(user_data, is_training, sc, en, fn) ==
    IF is_training
    THEN [encoders |-> [c \in (DOMAIN en) \cup Range(categorical_cols) |->
                           IF c \in Range(categorical_cols)
                           THEN [gen |-> -1, fitted |-> TRUE, classes |-> {user_data[c]}]
                           ELSE en[c]],
          scalers |-> Put(sc, "features", [gen |-> -1, fitted |-> TRUE]),
          feature_names |-> FeatureCols]
    ELSE [encoders |-> en, scalers |-> sc, feature_names |-> fn]

\* a variant of predict_footprint's call that preprocesses in training mode
PredictPreprocess_Training(user_data, sc, en, fn) ==
    preprocess_data(user_data, TRUE, sc, en, fn)

\* predict_footprint: self.preprocess_data(df_user, is_training=False)
PredictPreprocess(user_data, sc, en, fn) ==
    preprocess_data(user_data, FALSE, sc, en, fn)

\* a caller invokes predict_footprint; the predictor is shared, so the call may
\* fall between two steps of a train_models call
Predict(variant, user_data) ==
    LET b == IF ModelMissing(variant, models)
             THEN [encoders |-> encoders, scalers |-> scalers, feature_names |-> feature_names]
             ELSE PredictPreprocess(user_data, scalers, encoders, feature_names)
    IN /\ out' = predict_footprint(user_data, variant, models, scalers, encoders,
                                   feature_names)
       /\ encoders' = b.encoders
       /\ scalers' = b.scalers
       /\ feature_names' = b.feature_names
       /\ UNCHANGED <<models, train, nTrain, calc, rec, fc, db, dm, rnd, gen>>

FeatureImportance(variant) ==
    /\ out' = get_feature_importance(variant, models, feature_names)
    /\ UNCHANGED <<models, scalers, encoders, feature_names, train, nTrain, calc, rec, fc, db, dm, rnd, gen>>

\* ---- load_models ----
\* A model directory as load_models finds it: the variants whose
\* <name>_model.pkl exists, and whether each preprocessor file exists.
ModelDirs ==
    [models : {{}, {"xgboost"}, Variants},
     scalers : BOOLEAN, encoders : BOOLEAN, feature_names : BOOLEAN]

\* the objects save_models wrote after a training run of another process
\* (generation 0; the runs of this predictor are numbered from 1)
SavedModel == [gen |-> 0]
SavedScalers == [k \in {"features"} |-> [gen |-> 0, fitted |-> TRUE]]
SavedEncoders ==
    [c \in Range(categorical_cols) |->
        [gen |-> 0, fitted |-> TRUE,
         classes |-> IF c = "location_type" THEN Range(LocationTypes)
                     ELSE Range(VehicleTypes)]]

\* load_models(model_dir): the model files that exist are stored one by one,
\* then scalers.pkl, encoders.pkl and feature_names.pkl are loaded in this
\* order; joblib.load of a missing file raises, the except clause returns False
load_models(dir, ms, sc, en, fn) ==
    LET loaded == [v \in (DOMAIN ms) \cup dir.models |->
                      IF v \in dir.models THEN SavedModel ELSE ms[v]]
    IN IF ~dir.scalers
       THEN [models |-> loaded, scalers |-> sc, encoders |-> en, feature_names |-> fn,
             result |-> FALSE]
       ELSE IF ~dir.encoders
       THEN [models |-> loaded, scalers |-> SavedScalers, encoders |-> en,
             feature_names |-> fn, result |-> FALSE]
       ELSE IF ~dir.feature_names
       THEN [models |-> loaded, scalers |-> SavedScalers, encoders |-> SavedEncoders,
             feature_names |-> fn, result |-> FALSE]
       ELSE [models |-> loaded, scalers |-> SavedScalers, encoders |-> SavedEncoders,
             feature_names |-> FeatureCols, result |-> TRUE]

\* a caller invokes load_models on a predictor that is not in a train_models call
LoadModels(dir) ==
    /\ train.pc = "idle"
    /\ LET r == load_models(dir, models, scalers, encoders, feature_names)
       IN /\ models' = r.models
          /\ scalers' = r.scalers
          /\ encoders' = r.encoders
          /\ feature_names' = r.feature_names
          /\ out' = [NoOut EXCEPT !.op = "load", !.kind = "return", !.result = r.result,
                                  !.preModels = DOMAIN models]
    /\ UNCHANGED <<train, nTrain, calc, rec, fc, db, dm, rnd, gen>>

Next ==
    \/ \E dir \in ModelDirs : LoadModels(dir)
    \/ \E rows \in 0..MaxRows : \E classes \in DatasetClasses(rows) : TrainCall(rows, classes)
    \/ TrainEncode
    \/ TrainFeatures
    \/ TrainScale
    \/ TrainSplit
    \/ TrainFit
    \/ TrainReturn
    \/ \E variant \in VariantInputs, user_data \in UserData : Predict(variant, user_data)
    \/ \E variant \in VariantInputs : FeatureImportance(variant)

Spec == Init /\ [][Next]_vars

(***************************************************************************)
(* Predictor claims                                                        *)
(***************************************************************************)
BundleEmpty ==
    /\ DOMAIN models = {}
    /\ DOMAIN scalers = {}
    /\ DOMAIN encoders = {}
    /\ feature_names = <<>>

BundleFull ==
    /\ DOMAIN encoders = Range(categorical_cols)
    /\ "features" \in DOMAIN scalers
    /\ scalers["features"].fitted
    /\ feature_names # <<>>
    /\ DOMAIN models # {}

C2_BundleAtomic ==
    train.pc = "idle" => (BundleEmpty \/ BundleFull)

\* C3: a predict or feature_importance call that returns has read encoders,
\* scaler and model of one and the same training call.
C3_ReadsOneGeneration ==
    (out.op \in {"predict", "importance"} /\ out.kind = "return") =>
        Cardinality(out.gens) <= 1

\* C4: train on a dataset of zero rows fails with EmptyDatasetError and returns
\* no metrics report.
C4_EmptyDatasetError ==
    (out.op = "train" /\ out.rows = 0) =>
        (out.kind = "raise" /\ out.err = "EmptyDatasetError")

\* C14: a train call that returns reports exactly the four variants and
\* leaves exactly those four models in the bundle; and once the bundle holds
\* the four models, predict with any of them on a complete feature vector
\* whose categorical values every non-empty training dataset contains
\* returns a number.
C14_TrainedBundlePredicts ==
    /\ (out.op = "train" /\ out.kind = "return") =>
           (out.report = Variants /\ DOMAIN models = Variants)
    /\ (/\ out.op = "predict"
        /\ out.preModels = Variants
        /\ out.variant \in Variants
        /\ out.user_data = [location_type |-> "urban", vehicle_type |-> "gasoline"]) =>
           out.kind = "return"

\* C28: a load_models call that returns False leaves models, scalers,
\* encoders and the feature list exactly as they were before the call.
C28_FailedLoadLeavesBundle ==
    [][\A dir \in ModelDirs :
          (LoadModels(dir) /\ ~out'.result) =>
              UNCHANGED <<models, scalers, encoders, feature_names>>]_vars

(***************************************************************************)
(* CarbonFootprintCalculator                                               *)
(***************************************************************************)
MaxAmount == 2      \* activity amounts 1..MaxAmount (tenths of a unit)
MaxUnknown == 1     \* unknown activity keys added to one input

Categories == {"transportation", "energy", "food", "waste"}
CategoryOrder == <<"transportation", "energy", "food", "waste">>

\* self.emission_factors, in thousandths of kg CO2 per unit
emission_factors ==
    [transportation |->
        ("car_gasoline" :> 411 @@ "car_diesel" :> 364 @@ "car_electric" :> 100 @@
         "bus" :> 89 @@ "train" :> 41 @@ "plane_domestic" :> 255 @@
         "plane_international" :> 195 @@ "motorcycle" :> 197 @@
         "bicycle" :> 0 @@ "walking" :> 0),
     energy |->
        ("electricity" :> 920 @@ "natural_gas" :> 5300 @@ "heating_oil" :> 10150 @@
         "propane" :> 5680 @@ "coal" :> 2230),
     food |->
        ("beef" :> 27000 @@ "lamb" :> 39200 @@ "pork" :> 12100 @@ "chicken" :> 6900 @@
         "fish" :> 6100 @@ "dairy" :> 3200 @@ "eggs" :> 4800 @@ "vegetables" :> 2000 @@
         "fruits" :> 1100 @@ "grains" :> 2500 @@ "processed_food" :> 5800),
     waste |->
        ("landfill" :> 570 @@ "recycling" :> 0 @@ "composting" :> 0 @@
         "incineration" :> 700)]

\* dict.get(key, default)
Get(d, k, default) == IF k \in DOMAIN d THEN d[k] ELSE default

\* sum of f[k] over the keys k of f
RECURSIVE SumValues(_)
SumValues(f) ==
    IF DOMAIN f = {} THEN 0
    ELSE LET k == CHOOSE x \in DOMAIN f : TRUE
         IN f[k] + SumValues([x \in (DOMAIN f) \ {k} |-> f[x]])

\* a variant that adds the frequency to the distance
TransportTerm_AddsFrequency(mode, details) ==
    IF mode \in DOMAIN emission_factors["transportation"]
    THEN (Get(details, "distance", 0) + Get(details, "frequency", 1))
             * emission_factors["transportation"][mode]
    ELSE 0

\* one pass of the transportation loop: a mode of the factor table adds
\* distance * frequency * factor, any other mode adds nothing
TransportTerm(mode, details) ==
    IF mode \in DOMAIN emission_factors["transportation"]
    THEN Get(details, "distance", 0) * Get(details, "frequency", 1)
             * emission_factors["transportation"][mode]
    ELSE 0

calculate_transportation_footprint(transport_data) ==
    SumValues([mode \in DOMAIN transport_data |-> TransportTerm(mode, transport_data[mode])])

\* a variant of the loop body that charges a key missing from the table with a default factor
AmountTerm_DefaultFactor(category, key, amount) ==
    amount * Get(emission_factors[category], key, 1000)

\* one pass of the energy / food / waste loop
AmountTerm(category, key, amount) ==
    IF key \in DOMAIN emission_factors[category]
    THEN amount * emission_factors[category][key]
    ELSE 0

calculate_energy_footprint(energy_data) ==
    SumValues([source \in DOMAIN energy_data |-> AmountTerm("energy", source, energy_data[source])])

calculate_food_footprint(food_data) ==
    SumValues([food_type \in DOMAIN food_data |-> AmountTerm("food", food_type, food_data[food_type])])

calculate_waste_footprint(waste_data) ==
    SumValues([m \in DOMAIN waste_data |-> AmountTerm("waste", m, waste_data[m])])

CategoryFootprint(category, data) ==
    CASE category = "transportation" -> calculate_transportation_footprint(data)
      [] category = "energy" -> calculate_energy_footprint(data)
      [] category = "food" -> calculate_food_footprint(data)
      [] category = "waste" -> calculate_waste_footprint(data)

\* a variant that totals a fixed list of categories and leaves waste out
BreakdownTotal_NoWaste(footprint_breakdown) ==
    Get(footprint_breakdown, "transportation", 0) + Get(footprint_breakdown, "energy", 0)
        + Get(footprint_breakdown, "food", 0)

\* footprint_breakdown['total'] = sum(footprint_breakdown.values())
BreakdownTotal(footprint_breakdown) == SumValues(footprint_breakdown)

\* a variant that reports 0 for a category the input does not hold
calculate_total_footprint_ZeroFill(user_data) ==
    LET footprint_breakdown ==
            [c \in Categories |->
                IF c \in DOMAIN user_data THEN CategoryFootprint(c, user_data[c]) ELSE 0]
    IN Put(footprint_breakdown, "total", BreakdownTotal(footprint_breakdown))

calculate_total_footprint(user_data) ==
    LET footprint_breakdown ==
            [c \in (DOMAIN user_data) \cap Categories |-> CategoryFootprint(c, user_data[c])]
    IN Put(footprint_breakdown, "total", BreakdownTotal(footprint_breakdown))

\* ---- inputs ----
Amounts == 1..MaxAmount

\* all dictionaries with keys among K and values in V
Dicts(K, V) == UNION {[D -> V] : D \in SUBSET K}

\* per-trip details; distance and frequency are both optional (details.get)
TransportDetails ==
    {[distance |-> 250, frequency |-> 1]} \cup
    {("distance" :> d) : d \in {10 * a : a \in Amounts}} \cup
    {("frequency" :> 2)}

KnownKeys ==
    [transportation |-> {"car_gasoline"}, energy |-> {"electricity"},
     food |-> {"beef", "vegetables"}, waste |-> {"landfill"}]

\* activity keys the input forms use that no factor table lists
UnknownKeys ==
    [transportation |-> {"subway"}, energy |-> {"wood"},
     food |-> {"tofu"}, waste |-> {"plastic"}]

CategoryInputs(c) ==
    IF c = "transportation" THEN Dicts(KnownKeys[c], TransportDetails)
    ELSE Dicts(KnownKeys[c], Amounts)

\* ActivityInput: any subset of the four categories, each with any known keys
ActivityInputs ==
    UNION {{ud \in [D -> UNION {CategoryInputs(c) : c \in Categories}] :
                \A c \in D : ud[c] \in CategoryInputs(c)} : D \in SUBSET Categories}

\* the day of the calculator test: 25 km by car once, 30 kWh, 0.2 kg beef,
\* 0.5 kg vegetables, 1.5 kg landfill (amounts in tenths)
ScenarioInput ==
    [transportation |-> ("car_gasoline" :> [distance |-> 250, frequency |-> 1]),
     energy |-> ("electricity" :> 300),
     food |-> ("beef" :> 2 @@ "vegetables" :> 5),
     waste |-> ("landfill" :> 15)]

\* the caller holds an input that has not been evaluated yet
InitCalc ==
    /\ models = EmptyMap
    /\ scalers = EmptyMap
    /\ encoders = EmptyMap
    /\ feature_names = <<>>
    /\ train = Idle
    /\ nTrain = 0
    /\ db = EmptyDb
    /\ dm = NoDm
    /\ rnd = Unseeded
    /\ gen = NoGen
    /\ out = NoOut
    /\ \E user_data \in ActivityInputs \cup {ScenarioInput} :
           calc = [NoCalc EXCEPT !.op = "input", !.input = user_data]
    /\ rec = NoRec
    /\ fc = NoFc

\* the caller computes the breakdown of the input
Calculate ==
    /\ calc.op = "input"
    /\ calc' = [calc EXCEPT !.op = "calc",
                            !.result = calculate_total_footprint(calc.input)]
    /\ UNCHANGED <<models, scalers, encoders, feature_names, train, nTrain, out, rec, fc, db, dm, rnd, gen>>

\* the caller adds an activity key that the category's factor table does not
\* have and computes the breakdown again
AddUnknownKey(c, key, value) ==
    /\ calc.op \in {"calc", "add_unknown"}
    /\ calc.unknown < MaxUnknown
    /\ c \in DOMAIN calc.input
    /\ key \notin DOMAIN calc.input[c]
    /\ LET user_data == [calc.input EXCEPT ![c] = Put(calc.input[c], key, value)]
       IN calc' = [op |-> "add_unknown", input |-> user_data,
                   result |-> calculate_total_footprint(user_data),
                   base |-> calc.result, unknown |-> calc.unknown + 1]
    /\ UNCHANGED <<models, scalers, encoders, feature_names, train, nTrain, out, rec, fc, db, dm, rnd, gen>>

NextCalc ==
    \/ Calculate
    \/ \E c \in Categories : \E key \in UnknownKeys[c] :
          \E value \in (IF c = "transportation" THEN TransportDetails ELSE Amounts) :
              AddUnknownKey(c, key, value)

SpecCalc == InitCalc /\ [][NextCalc]_vars

(***************************************************************************)
(* Calculator claims                                                       *)
(***************************************************************************)
\* C5: the total of a breakdown equals the sum of the category values of the
\* same breakdown, whatever subset of the categories the input holds.
C5_TotalIsSumOfCategories ==
    calc.op \in {"calc", "add_unknown"} =>
        /\ "total" \in DOMAIN calc.result
        /\ calc.result["total"] =
               Get(calc.result, "transportation", 0) + Get(calc.result, "energy", 0)
                   + Get(calc.result, "food", 0) + Get(calc.result, "waste", 0)

\* all four categories present, each with a non-zero value
C5_Witness ==
    /\ calc.op = "calc"
    /\ Categories \subseteq DOMAIN calc.result
    /\ \A c \in Categories : calc.result[c] > 0
    /\ calc.result["total"] > calc.result["transportation"]

\* amount * factor summed over the keys of the factor table only
KnownSum(c, data) ==
    LET known == (DOMAIN data) \cap (DOMAIN emission_factors[c])
    IN SumValues([k \in known |->
           IF c = "transportation"
           THEN Get(data[k], "distance", 0) * Get(data[k], "frequency", 1)
                    * emission_factors[c][k]
           ELSE data[k] * emission_factors[c][k]])

\* C6: a key outside the category's factor table contributes zero: every
\* category value is the sum over the known keys only, and adding an unknown
\* key leaves every category value and the total unchanged.
C6_UnknownKeysContributeZero ==
    calc.op \in {"calc", "add_unknown"} =>
        /\ \A c \in (DOMAIN calc.input) \cap Categories :
               calc.result[c] = KnownSum(c, calc.input[c])
        /\ calc.op = "add_unknown" => calc.result = calc.base

\* an input that holds an unknown key next to known ones, with a non-zero result
C6_Witness ==
    /\ calc.op = "add_unknown"
    /\ \E c \in DOMAIN calc.input :
          /\ (DOMAIN calc.input[c]) \cap UnknownKeys[c] # {}
          /\ (DOMAIN calc.input[c]) \cap KnownKeys[c] # {}
          /\ calc.result[c] > 0

\* C18: the input 25 km by gasoline car once, 30 kWh of electricity, 0.2 kg of
\* beef, 0.5 kg of vegetables and 1.5 kg of landfill waste yields
\* transportation 10.275, energy 27.6, food 6.4, waste 0.855 and total 45.13
\* (in units of 0.0001 kg).
C18_ScenarioValues ==
    (calc.op = "calc" /\ calc.input = ScenarioInput) =>
        calc.result = [transportation |-> 102750, energy |-> 276000, food |-> 64000,
                       waste |-> 8550, total |-> 451300]

\* the scenario was evaluated
C18_Witness ==
    /\ calc.op = "calc"
    /\ calc.input = ScenarioInput
    /\ calc.result["total"] = 451300

\* C19: the breakdown has the key of a category exactly when the input has
\* it, and it always has total.
C19_AbsentCategoriesOmitted ==
    calc.op \in {"calc", "add_unknown"} =>
        /\ "total" \in DOMAIN calc.result
        /\ \A c \in Categories : c \in DOMAIN calc.result <=> c \in DOMAIN calc.input
        /\ DOMAIN calc.result \subseteq Categories \cup {"total"}

\* an input that holds only the food category
C19_Witness ==
    /\ calc.op = "calc"
    /\ DOMAIN calc.input = {"food"}
    /\ DOMAIN calc.result = {"food", "total"}

(***************************************************************************)
(* AIRecommendationEngine                                                  *)
(***************************************************************************)
MaxEmission == 600  \* largest daily category emission tried (kg)
MaxPatternDays == 15   \* days of history passed to analyze_user_pattern
MaxPlanLen == 4     \* longest recommendation list handed to generate_action_plan

\* _load_recommendation_database
recommendation_database ==
    [
     transportation |-> [
         high_emissions |-> <<
             "Switch to an electric or hybrid vehicle - can reduce emissions by 40-60%",
             "Use public transportation for daily commutes",
             "Implement carpooling or ride-sharing for regular trips",
             "Work from home 2-3 days per week if possible",
             "Combine multiple errands into single trips",
             "Consider cycling or walking for short distances (<3 miles)",
             "Plan vacations closer to home to reduce flight emissions",
             "Use video conferencing instead of business travel">>,
         medium_emissions |-> <<
             "Maintain your vehicle properly for better fuel efficiency",
             "Plan routes efficiently to minimize driving time",
             "Use eco-driving techniques (smooth acceleration, steady speeds)",
             "Consider upgrading to a more fuel-efficient vehicle",
             "Use public transport for longer trips">>,
         low_emissions |-> <<
             "Great job! Your transportation emissions are low",
             "Continue using sustainable transport options",
             "Share your transportation habits with friends and family">>],
     energy |-> [
         high_emissions |-> <<
             "Switch to renewable energy sources (solar, wind)",
             "Improve home insulation to reduce heating/cooling needs",
             "Upgrade to energy-efficient appliances (ENERGY STAR rated)",
             "Install a programmable thermostat",
             "Replace incandescent bulbs with LED lighting",
             "Unplug electronics when not in use",
             "Use cold water for washing clothes when possible",
             "Consider a heat pump for heating and cooling">>,
         medium_emissions |-> <<
             "Set thermostat 2-3 degrees lower in winter, higher in summer",
             "Use natural light during the day",
             "Air-dry clothes instead of using the dryer",
             "Seal air leaks around windows and doors">>,
         low_emissions |-> <<
             "Excellent energy management!",
             "Continue your energy-efficient practices",
             "Consider sharing tips with neighbors">>],
     food |-> [
         high_emissions |-> <<
             "Reduce red meat consumption (beef, lamb) by 50%",
             "Try 'Meatless Monday' or plant-based meals 2-3 times per week",
             "Buy local and seasonal produce when possible",
             "Reduce food waste through meal planning",
             "Grow your own herbs and vegetables",
             "Choose organic and sustainably produced foods",
             "Reduce dairy consumption or try plant-based alternatives",
             "Avoid heavily processed and packaged foods">>,
         medium_emissions |-> <<
             "Plan meals in advance to reduce waste",
             "Choose chicken or fish over red meat",
             "Buy from local farmers markets",
             "Compost food scraps">>,
         low_emissions |-> <<
             "Your food choices are climate-friendly!",
             "Keep up the sustainable eating habits",
             "Consider sharing recipes with others">>],
     waste |-> [
         high_emissions |-> <<
             "Increase recycling rate to 80% or higher",
             "Start composting organic waste",
             "Reduce single-use items (bags, bottles, containers)",
             "Buy products with minimal packaging",
             "Donate or sell items instead of throwing them away",
             "Choose reusable alternatives (water bottles, shopping bags)",
             "Repair items instead of replacing them",
             "Buy second-hand when possible">>,
         medium_emissions |-> <<
             "Improve sorting for better recycling",
             "Reduce packaging waste by buying in bulk",
             "Use both sides of paper",
             "Choose products made from recycled materials">>,
         low_emissions |-> <<
             "Excellent waste management!",
             "Your waste practices are very sustainable",
             "Help others learn about proper waste disposal">>]]

\* _load_impact_estimates (kg CO2 per year)
impact_estimates ==
    [transportation |->
        ("switch_to_electric" :> -2000 @@
         "work_from_home_2days" :> -800 @@
         "use_public_transport" :> -1200 @@
         "carpool_regularly" :> -600 @@
         "eco_driving" :> -300 @@
         "bike_short_trips" :> -400),
     energy |->
        ("renewable_energy" :> -1500 @@
         "led_lighting" :> -200 @@
         "efficient_appliances" :> -500 @@
         "better_insulation" :> -800 @@
         "programmable_thermostat" :> -300 @@
         "unplug_devices" :> -150),
     food |->
        ("reduce_meat_50percent" :> -500 @@
         "local_food" :> -200 @@
         "reduce_food_waste" :> -300 @@
         "plant_based_2days" :> -400 @@
         "organic_food" :> -100),
     waste |->
        ("increase_recycling" :> -200 @@
         "composting" :> -150 @@
         "reduce_single_use" :> -100 @@
         "buy_second_hand" :> -80 @@
         "repair_vs_replace" :> -120)]

\* action_mapping of _extract_action_key, each table in dictionary order
action_mapping ==
    [transportation |-> <<
         <<"electric", "switch_to_electric">>,
         <<"work from home", "work_from_home_2days">>,
         <<"public", "use_public_transport">>,
         <<"carpool", "carpool_regularly">>,
         <<"eco-driving", "eco_driving">>,
         <<"cycling", "bike_short_trips">>>>,
     energy |-> <<
         <<"renewable", "renewable_energy">>,
         <<"LED", "led_lighting">>,
         <<"appliances", "efficient_appliances">>,
         <<"insulation", "better_insulation">>,
         <<"thermostat", "programmable_thermostat">>,
         <<"unplug", "unplug_devices">>>>,
     food |-> <<
         <<"meat", "reduce_meat_50percent">>,
         <<"local", "local_food">>,
         <<"waste", "reduce_food_waste">>,
         <<"plant-based", "plant_based_2days">>,
         <<"organic", "organic_food">>>>,
     waste |-> <<
         <<"recycling", "increase_recycling">>,
         <<"composting", "composting">>,
         <<"single-use", "reduce_single_use">>,
         <<"second-hand", "buy_second_hand">>,
         <<"repair", "repair_vs_replace">>>>]

\* thresholds of get_personalized_recommendations (kg CO2 per day)
thresholds ==
    [transportation |-> [high |-> 100, medium |-> 50],
     energy |-> [high |-> 200, medium |-> 100],
     food |-> [high |-> 150, medium |-> 75],
     waste |-> [high |-> 50, medium |-> 25]]

\* ---- text operations ----
UpperToLower ==
    "A" :> "a" @@ "B" :> "b" @@ "C" :> "c" @@ "D" :> "d" @@ "E" :> "e" @@ "F" :> "f" @@
    "G" :> "g" @@ "H" :> "h" @@ "I" :> "i" @@ "J" :> "j" @@ "K" :> "k" @@ "L" :> "l" @@
    "M" :> "m" @@ "N" :> "n" @@ "O" :> "o" @@ "P" :> "p" @@ "Q" :> "q" @@ "R" :> "r" @@
    "S" :> "s" @@ "T" :> "t" @@ "U" :> "u" @@ "V" :> "v" @@ "W" :> "w" @@ "X" :> "x" @@
    "Y" :> "y" @@ "Z" :> "z"

LowerToUpper ==
    "a" :> "A" @@ "b" :> "B" @@ "c" :> "C" @@ "d" :> "D" @@ "e" :> "E" @@ "f" :> "F" @@
    "g" :> "G" @@ "h" :> "H" @@ "i" :> "I" @@ "j" :> "J" @@ "k" :> "K" @@ "l" :> "L" @@
    "m" :> "M" @@ "n" :> "N" @@ "o" :> "O" @@ "p" :> "P" @@ "q" :> "Q" @@ "r" :> "R" @@
    "s" :> "S" @@ "t" :> "T" @@ "u" :> "U" @@ "v" :> "V" @@ "w" :> "W" @@ "x" :> "X" @@
    "y" :> "Y" @@ "z" :> "Z"

\* str.lower()
RECURSIVE Lower(_)
Lower(str) ==
    IF Len(str) = 0 THEN ""
    ELSE Get(UpperToLower, SubSeq(str, 1, 1), SubSeq(str, 1, 1))
             \o Lower(SubSeq(str, 2, Len(str)))

\* str.title() of a one-word, lower-case name
Title(str) ==
    IF Len(str) = 0 THEN ""
    ELSE Get(LowerToUpper, SubSeq(str, 1, 1), SubSeq(str, 1, 1)) \o SubSeq(str, 2, Len(str))

\* "keyword in text"
Contains(keyword, text) ==
    \E i \in 1..(Len(text) - Len(keyword) + 1) :
        SubSeq(text, i, i + Len(keyword) - 1) = keyword

\* ---- scoring ----
\* int(x) of the quotient a / b, b > 0: truncation towards zero
TruncDiv(a, b) == IF a >= 0 THEN a \div b ELSE -((-a) \div b)

\* a variant without the default: no action key when no keyword is found
_extract_action_key_NoDefault(recommendation, category) ==
    LET rec_lower == Lower(recommendation)
        table == action_mapping[category]
        hits == {i \in DOMAIN table : Contains(table[i][1], rec_lower)}
    IN IF hits # {}
       THEN table[CHOOSE i \in hits : \A j \in hits : i <= j][2]
       ELSE ""

\* _extract_action_key: the action of the first keyword found in the lower-cased
\* text, else the first action of the category
_extract_action_key(recommendation, category) ==
    LET rec_lower == Lower(recommendation)
        table == action_mapping[category]
        hits == {i \in DOMAIN table : Contains(table[i][1], rec_lower)}
    IN IF hits # {}
       THEN table[CHOOSE i \in hits : \A j \in hits : i <= j][2]
       ELSE table[1][2]

\* a variant that does not cap the emission score
_calculate_priority_Uncapped(current_emissions, impact) ==
    TruncDiv(5 * current_emissions + Min(Abs(impact), 2500), 500)

\* _calculate_priority: int(min(e / 100, 5) + min(abs(impact) / 500, 5)),
\* computed over the common denominator 500
_calculate_priority(current_emissions, impact) ==
    TruncDiv(5 * Min(current_emissions, 500) + Min(Abs(impact), 2500), 500)

high_difficulty_keywords == <<"switch", "install", "upgrade", "renewable">>
medium_difficulty_keywords == <<"reduce", "increase", "improve", "plan">>

\* a variant that looks the keywords up in the text as written
_estimate_difficulty_CaseSensitive(recommendation) ==
    IF \E i \in DOMAIN high_difficulty_keywords :
           Contains(high_difficulty_keywords[i], recommendation)
    THEN "High"
    ELSE IF \E i \in DOMAIN medium_difficulty_keywords :
           Contains(medium_difficulty_keywords[i], recommendation)
    THEN "Medium"
    ELSE "Low"

_estimate_difficulty(recommendation) ==
    LET rec_lower == Lower(recommendation) IN
    IF \E i \in DOMAIN high_difficulty_keywords :
           Contains(high_difficulty_keywords[i], rec_lower)
    THEN "High"
    ELSE IF \E i \in DOMAIN medium_difficulty_keywords :
           Contains(medium_difficulty_keywords[i], rec_lower)
    THEN "Medium"
    ELSE "Low"

\* ---- get_personalized_recommendations ----
\* a variant that tests the medium cutoff before the high one
EmissionLevel_MediumFirst(category, emissions) ==
    IF emissions > thresholds[category].medium THEN "medium_emissions"
    ELSE IF emissions > thresholds[category].high THEN "high_emissions"
    ELSE "low_emissions"

\* the level of a category's emissions
EmissionLevel(category, emissions) ==
    IF emissions > thresholds[category].high THEN "high_emissions"
    ELSE IF emissions > thresholds[category].medium THEN "medium_emissions"
    ELSE "low_emissions"

\* list[:n]
Take(list, n) == SubSeq(list, 1, Min(n, Len(list)))

\* the dictionary appended for one recommendation text
MakeRecommendation(category, emissions, text) ==
    LET action_key == _extract_action_key(text, category)
        impact == Get(impact_estimates[category], action_key, 0)
    IN [category |-> Title(category),
        recommendation |-> text,
        impact_estimate |-> impact,
        priority |-> _calculate_priority(emissions, impact),
        difficulty |-> _estimate_difficulty(text)]

\* the body of the loop for one category: the top 2 texts of its level
CategoryRecommendations(category, emissions) ==
    LET category_recs == recommendation_database[category][EmissionLevel(category, emissions)]
        top == Take(category_recs, 2)
    IN [i \in DOMAIN top |-> MakeRecommendation(category, emissions, top[i])]

\* a variant of the loop head that does not skip any key
SkipKey_Never(category) == FALSE

\* "if category == 'total': continue"
SkipKey(category) == category = "total"

\* a variant whose key holds the signed impact_estimate
KeyLess_SignedImpact(a, b) ==
    \/ a.priority < b.priority
    \/ a.priority = b.priority /\ a.impact_estimate < b.impact_estimate

\* sort key (priority, abs(impact_estimate)), compared as Python compares tuples
KeyLess(a, b) ==
    \/ a.priority < b.priority
    \/ a.priority = b.priority /\ Abs(a.impact_estimate) < Abs(b.impact_estimate)

\* put x into a list sorted by descending key, behind all items whose key is not smaller
RECURSIVE InsertDesc(_, _)
InsertDesc(x, sorted) ==
    IF sorted = <<>> THEN <<x>>
    ELSE IF KeyLess(sorted[1], x) THEN <<x>> \o sorted
    ELSE <<sorted[1]>> \o InsertDesc(x, Tail(sorted))

\* list.sort(key=..., reverse=True): stable, descending
RECURSIVE SortDesc(_)
SortDesc(list) ==
    IF list = <<>> THEN <<>>
    ELSE InsertDesc(list[Len(list)], SortDesc(SubSeq(list, 1, Len(list) - 1)))

\* the loop over user_footprint.items(); user_footprint is the list of its
\* (key, value) pairs in dictionary order.  A key that is not skipped and has
\* no thresholds raises KeyError.
RECURSIVE CollectRecommendations(_)
CollectRecommendations(items) ==
    IF items = <<>> THEN [kind |-> "return", err |-> "", list |-> <<>>]
    ELSE LET category == items[1][1]
             emissions == items[1][2]
             rest == CollectRecommendations(Tail(items))
         IN IF SkipKey(category) THEN rest
            ELSE IF category \notin DOMAIN thresholds
            THEN [kind |-> "raise", err |-> "KeyError", list |-> <<>>]
            ELSE IF rest.kind = "raise" THEN rest
            ELSE [rest EXCEPT !.list = CategoryRecommendations(category, emissions) \o rest.list]

get_personalized_recommendations(user_footprint) ==
    LET collected == CollectRecommendations(user_footprint)
    IN IF collected.kind = "raise" THEN collected
       ELSE [collected EXCEPT !.list = Take(SortDesc(collected.list), 8)]

\* ---- generate_action_plan ----
\* [r for r in recommendations if r['difficulty'] == difficulty]
RECURSIVE FilterDifficulty(_, _)
FilterDifficulty(recommendations, difficulty) ==
    IF recommendations = <<>> THEN <<>>
    ELSE IF recommendations[1].difficulty = difficulty
    THEN <<recommendations[1]>> \o FilterDifficulty(Tail(recommendations), difficulty)
    ELSE FilterDifficulty(Tail(recommendations), difficulty)

\* sum(abs(r['impact_estimate']) for r in list)
RECURSIVE SumAbsImpact(_)
SumAbsImpact(list) ==
    IF list = <<>> THEN 0
    ELSE Abs(list[1].impact_estimate) + SumAbsImpact(Tail(list))

\* a variant that sums the impact of every action of the difficulty, sliced or not
PhaseOf_SumAll(focus, actions, n) ==
    [focus |-> focus, actions |-> Take(actions, n),
     expected_reduction |-> SumAbsImpact(actions)]

\* one phase of the plan: the first n actions and the sum of their |impact|
PhaseOf(focus, actions, n) ==
    [focus |-> focus, actions |-> Take(actions, n),
     expected_reduction |-> SumAbsImpact(Take(actions, n))]

\* a variant that takes three major changes
generate_action_plan_ThreeMajor(recommendations) ==
    LET easy_wins == FilterDifficulty(recommendations, "Low")
        medium_actions == FilterDifficulty(recommendations, "Medium")
        major_changes == FilterDifficulty(recommendations, "High")
        weeks_1_2 == PhaseOf("Quick Wins", easy_wins, 3)
        weeks_3_6 == PhaseOf("Habit Changes", medium_actions, 3)
        weeks_7_12 == PhaseOf("Major Improvements", major_changes, 3)
    IN [weeks_1_2 |-> weeks_1_2,
        weeks_3_6 |-> weeks_3_6,
        weeks_7_12 |-> weeks_7_12,
        total_potential_reduction |->
            weeks_1_2.expected_reduction + weeks_3_6.expected_reduction
                + weeks_7_12.expected_reduction]

generate_action_plan(recommendations) ==
    LET easy_wins == FilterDifficulty(recommendations, "Low")
        medium_actions == FilterDifficulty(recommendations, "Medium")
        major_changes == FilterDifficulty(recommendations, "High")
        weeks_1_2 == PhaseOf("Quick Wins", easy_wins, 3)
        weeks_3_6 == PhaseOf("Habit Changes", medium_actions, 3)
        weeks_7_12 == PhaseOf("Major Improvements", major_changes, 2)
    IN [weeks_1_2 |-> weeks_1_2,
        weeks_3_6 |-> weeks_3_6,
        weeks_7_12 |-> weeks_7_12,
        total_potential_reduction |->
            weeks_1_2.expected_reduction + weeks_3_6.expected_reduction
                + weeks_7_12.expected_reduction]

\* ---- generate_weekly_tips ----
seasonal_recs ==
  [
    winter |-> <<
        "Optimize heating efficiency - lower thermostat by 2°F",
        "Use draft stoppers and weatherstripping",
        "Take advantage of natural sunlight for heating",
        "Wear layers instead of increasing heat" >>,
    spring |-> <<
        "Start a garden to grow your own vegetables",
        "Begin cycling or walking as weather improves",
        "Clean and maintain HVAC systems",
        "Plan energy-efficient home improvements" >>,
    summer |-> <<
        "Use fans instead of air conditioning when possible",
        "Plan local vacations to reduce travel emissions",
        "Harvest rainwater for garden irrigation",
        "Use natural ventilation during cooler hours" >>,
    fall |-> <<
        "Prepare home for winter efficiency",
        "Preserve seasonal foods to reduce winter transport emissions",
        "Switch to renewable energy before peak heating season",
        "Insulate pipes and water heater" >> ]

get_seasonal_recommendations(current_month) ==
    IF current_month \in {12, 1, 2} THEN seasonal_recs.winter
    ELSE IF current_month \in {3, 4, 5} THEN seasonal_recs.spring
    ELSE IF current_month \in {6, 7, 8} THEN seasonal_recs.summer
    ELSE seasonal_recs.fall

weekly_tips_db ==
  [
    transportation |-> <<
        "Try walking or biking for trips under 2 miles",
        "Plan your errands to minimize driving",
        "Check your tire pressure - properly inflated tires improve fuel efficiency",
        "Consider carpooling with colleagues or neighbors" >>,
    energy |-> <<
        "Unplug chargers and electronics when not in use",
        "Use cold water for washing clothes",
        "Open curtains during sunny days for natural heating",
        "Set your water heater to 120°F (49°C)" >>,
    food |-> <<
        "Try one new plant-based recipe this week",
        "Buy only what you need to reduce food waste",
        "Choose seasonal fruits and vegetables",
        "Start a small herb garden on your windowsill" >>,
    waste |-> <<
        "Bring reusable bags when shopping",
        "Use both sides of paper for notes",
        "Donate clothes instead of throwing them away",
        "Start separating compostable materials" >> ]

\* [(k, v) for k, v in user_footprint.items() if k != 'total']
RECURSIVE NonTotalItems(_)
NonTotalItems(items) ==
    IF items = <<>> THEN <<>>
    ELSE IF items[1][1] # "total" THEN <<items[1]>> \o NonTotalItems(Tail(items))
    ELSE NonTotalItems(Tail(items))

\* max(items, key=lambda x: x[1]) of a non-empty list: the first item of the
\* largest value
RECURSIVE MaxByValue(_)
MaxByValue(items) ==
    IF Len(items) = 1 THEN items[1]
    ELSE LET rest == MaxByValue(Tail(items))
         IN IF items[1][2] >= rest[2] THEN items[1] ELSE rest

\* max() of an empty list raises ValueError; a highest key without an entry
\* in weekly_tips_db raises KeyError
generate_weekly_tips(user_footprint, week_number, current_month) ==
    LET candidates == NonTotalItems(user_footprint)
    IN IF candidates = <<>>
       THEN [kind |-> "raise", err |-> "ValueError", tips |-> <<>>]
       ELSE LET highest_category == MaxByValue(candidates)[1]
            IN IF highest_category \notin DOMAIN weekly_tips_db
               THEN [kind |-> "raise", err |-> "KeyError", tips |-> <<>>]
               ELSE LET category_tips == weekly_tips_db[highest_category]
                        tip_index == week_number % Len(category_tips)
                        seasonal_tips == get_seasonal_recommendations(current_month)
                    IN [kind |-> "return", err |-> "",
                        tips |-> <<category_tips[tip_index + 1],
                                   seasonal_tips[(week_number % Len(seasonal_tips)) + 1]>>]

\* ---- benchmark_against_peers ----
benchmarks ==
  [
    global_average |-> 4800,
    us_average |-> 16000,
    eu_average |-> 8500,
    target_2030 |-> 2300 ]

\* user_footprint.get('total', 0)
RECURSIVE GetItem(_, _, _)
GetItem(items, key, default) ==
    IF items = <<>> THEN default
    ELSE IF items[1][1] = key THEN items[1][2]
    ELSE GetItem(Tail(items), key, default)

\* percentage is the rational difference * 100 / benchmark value, kept as
\* <<numerator, denominator>>
benchmark_against_peers(user_footprint) ==
    LET user_annual == GetItem(user_footprint, "total", 0) * 365
    IN [benchmark_name \in DOMAIN benchmarks |->
           LET benchmark_value == benchmarks[benchmark_name]
               difference == user_annual - benchmark_value
           IN [value |-> benchmark_value,
               difference |-> difference,
               percentage |-> <<difference * 100, benchmark_value>>,
               status |-> IF difference > 0 THEN "above" ELSE "below"]]

\* ---- analyze_user_pattern ----
\* A footprint history is a sequence of rows in ascending date order; date is
\* a day number, day 0 being a Monday.  Means are compared as exact fractions.
DayNames == <<"Monday", "Tuesday", "Wednesday", "Thursday", "Friday", "Saturday", "Sunday">>

\* pd.to_datetime(date).dt.day_name()
day_name(date) == DayNames[(date % 7) + 1]

\* the keys of a groupby('day_of_week') result: sorted, that is alphabetical
GroupOrder == <<"Friday", "Monday", "Saturday", "Sunday", "Thursday", "Tuesday", "Wednesday">>

\* category_avgs, in dictionary order
PatternCategories == <<"transportation", "energy", "food", "waste">>

EmissionColumn(category, row) ==
    CASE category = "transportation" -> row.transportation_emissions
      [] category = "energy" -> row.energy_emissions
      [] category = "food" -> row.food_emissions
      [] category = "waste" -> row.waste_emissions

\* Series.sum(): the sum of a column of numbers
RECURSIVE SumRows(_)
SumRows(column) ==
    IF column = <<>> THEN 0 ELSE Head(column) + SumRows(Tail(column))

\* max(category_avgs, key=category_avgs.get): the first category of the
\* largest mean; all means are over the same rows, so the sums decide
highest_category(footprint_history) ==
    LET total(c) == SumRows([i \in DOMAIN footprint_history |->
                                 EmissionColumn(c, footprint_history[i])])
        best == CHOOSE i \in DOMAIN PatternCategories :
                    /\ \A j \in DOMAIN PatternCategories :
                           total(PatternCategories[i]) >= total(PatternCategories[j])
                    /\ \A j \in 1..(i - 1) :
                           total(PatternCategories[j]) < total(PatternCategories[i])
    IN PatternCategories[best]

\* a variant that wants more than a week of rows
HasTrend_OverAWeek(footprint_history) == Len(footprint_history) > 7

\* len(footprint_history) >= 7
HasTrend(footprint_history) == Len(footprint_history) >= 7

\* the trend observation: tail(7).mean() against head(7).mean() * 1.1 and * 0.9
TrendOf(footprint_history) ==
    LET n == Len(footprint_history)
        recent == SumRows([i \in 1..7 |-> footprint_history[n - 7 + i].total_emissions])
        older == SumRows([i \in 1..7 |-> footprint_history[i].total_emissions])
    IN IF 10 * recent > 11 * older THEN "increasing"
       ELSE IF 10 * recent < 9 * older THEN "decreasing"
       ELSE "stable"

\* groupby('day_of_week')['total_emissions'].mean(), as [sum, count] per day present
daily_avg(footprint_history) ==
    LET days == {day_name(footprint_history[i].date) : i \in DOMAIN footprint_history}
    IN [d \in days |->
           LET rows == {i \in DOMAIN footprint_history :
                           day_name(footprint_history[i].date) = d}
           IN [sum |-> SumRows([i \in DOMAIN footprint_history |->
                                   IF i \in rows THEN footprint_history[i].total_emissions
                                   ELSE 0]),
               count |-> Cardinality(rows)]]

\* a.sum / a.count < b.sum / b.count
MeanLess(a, b) == a.sum * b.count < b.sum * a.count

\* idxmax(): the first key in group order whose mean no other exceeds
idxmax(avg) ==
    LET best == CHOOSE i \in DOMAIN GroupOrder :
                    /\ GroupOrder[i] \in DOMAIN avg
                    /\ \A d \in DOMAIN avg : ~MeanLess(avg[GroupOrder[i]], avg[d])
                    /\ \A j \in 1..(i - 1) :
                           GroupOrder[j] \in DOMAIN avg
                               => MeanLess(avg[GroupOrder[j]], avg[GroupOrder[i]])
    IN GroupOrder[best]

\* idxmin(): the first key in group order whose mean is below no other
idxmin(avg) ==
    LET best == CHOOSE i \in DOMAIN GroupOrder :
                    /\ GroupOrder[i] \in DOMAIN avg
                    /\ \A d \in DOMAIN avg : ~MeanLess(avg[d], avg[GroupOrder[i]])
                    /\ \A j \in 1..(i - 1) :
                           GroupOrder[j] \in DOMAIN avg
                               => MeanLess(avg[GroupOrder[i]], avg[GroupOrder[j]])
    IN GroupOrder[best]

analyze_user_pattern(footprint_history) ==
    IF Len(footprint_history) = 0 THEN [patterns |-> <<>>, opportunities |-> <<>>]
    ELSE
    LET category_part ==
            [patterns |->
                 <<"Your highest emissions come from " \o highest_category(footprint_history)>>,
             opportunities |-> <<>>]
        trend == TrendOf(footprint_history)
        trend_part ==
            IF ~HasTrend(footprint_history) THEN [patterns |-> <<>>, opportunities |-> <<>>]
            ELSE IF trend = "increasing"
            THEN [patterns |-> <<"Your emissions have been increasing recently">>,
                  opportunities |->
                      <<"Focus on reducing daily activities that contribute most to emissions">>]
            ELSE IF trend = "decreasing"
            THEN [patterns |-> <<"Great! Your emissions have been decreasing">>,
                  opportunities |-> <<>>]
            ELSE [patterns |-> <<"Your emissions have been relatively stable">>,
                  opportunities |-> <<>>]
        avg == daily_avg(footprint_history)
        highest_day == idxmax(avg)
        lowest_day == idxmin(avg)
        day_part ==
            IF Len(footprint_history) < 14 THEN [patterns |-> <<>>, opportunities |-> <<>>]
            ELSE [patterns |->
                      <<"Your highest emission day is typically " \o highest_day,
                        "Your lowest emission day is typically " \o lowest_day>>,
                  opportunities |->
                      IF 2 * avg[highest_day].sum * avg[lowest_day].count
                             > 3 * avg[lowest_day].sum * avg[highest_day].count
                      THEN <<"Try to replicate your " \o lowest_day \o " habits on "
                                 \o highest_day>>
                      ELSE <<>>]
    IN [patterns |-> category_part.patterns \o trend_part.patterns \o day_part.patterns,
        opportunities |->
            category_part.opportunities \o trend_part.opportunities \o day_part.opportunities]

\* ---- inputs ----
FootprintKeys == <<"transportation", "energy", "food", "waste", "total">>

\* daily emissions of a category: zero, just inside each level, and the largest
EmissionValues(c) ==
    {0, thresholds[c].medium + 1, thresholds[c].high, thresholds[c].high + 1, MaxEmission}

\* the (key, value) pairs of the keys in D, in the order of FootprintKeys;
\* total is the sum of the categories present
RECURSIVE FootprintItems(_, _, _)
FootprintItems(D, v, i) ==
    IF i > Len(FootprintKeys) THEN <<>>
    ELSE LET k == FootprintKeys[i] IN
         IF k \notin D THEN FootprintItems(D, v, i + 1)
         ELSE IF k = "total"
         THEN <<<<k, SumValues([c \in D \cap Categories |-> v[c]])>>>>
                  \o FootprintItems(D, v, i + 1)
         ELSE <<<<k, v[k]>>>> \o FootprintItems(D, v, i + 1)

FootprintInputs ==
    {FootprintItems(D, v, 1) :
        D \in SUBSET Range(FootprintKeys),
        v \in [transportation : EmissionValues("transportation"),
               energy : EmissionValues("energy"),
               food : EmissionValues("food"),
               waste : EmissionValues("waste")]}

\* the breakdown the Recommendations page passes for a user without history
NoHistoryFootprint == <<<<"total", 20>>>>

\* ISO week numbers and months the page may run in
WeekNumbers == {4, 53}
Months == {1, 7, 11}

Difficulties == {"Low", "Medium", "High"}

\* the total of day i of a history of n days, by shape: level, a last week
\* above or below the first one (by more than, or by exactly, 10%), and
\* Saturdays above the other days (by more than, or by exactly, 50%)
ShapeTotal(shape, n, i, date) ==
    CASE shape = "level" -> 20
      [] shape = "rising" -> IF i > n - 7 THEN 24 ELSE 20
      [] shape = "rising_edge" -> IF i > n - 7 THEN 22 ELSE 20
      [] shape = "falling" -> IF i > n - 7 THEN 16 ELSE 20
      [] shape = "falling_edge" -> IF i > n - 7 THEN 18 ELSE 20
      [] shape = "saturdays" -> IF day_name(date) = "Saturday" THEN 32 ELSE 20
      [] shape = "saturdays_edge" -> IF day_name(date) = "Saturday" THEN 30 ELSE 20
      [] shape = "rising_saturdays" ->
            (IF i > n - 7 THEN 24 ELSE 20) + (IF day_name(date) = "Saturday" THEN 12 ELSE 0)

Shapes == {"level", "rising", "rising_edge", "falling", "falling_edge", "saturdays",
           "saturdays_edge", "rising_saturdays"}

\* a history of n days from day first on, every stride-th day, whose largest
\* category is top (the other three get 1 kg each)
HistoryOf(n, shape, top, first, stride) ==
    [i \in 1..n |->
        LET date == first + (i - 1) * stride
            total == ShapeTotal(shape, n, i, date)
            part(c) == IF c = top THEN total - 3 ELSE 1
        IN [date |-> date,
            transportation_emissions |-> part("transportation"),
            energy_emissions |-> part("energy"),
            food_emissions |-> part("food"),
            waste_emissions |-> part("waste"),
            total_emissions |-> total]]

PatternHistories ==
    {HistoryOf(n, shape, top, first, stride) :
        n \in 1..MaxPatternDays, shape \in Shapes, top \in Categories,
        first \in {0, 3, 5}, stride \in {1, 7}}

\* str.upper()
RECURSIVE Upper(_)
Upper(str) ==
    IF Len(str) = 0 THEN ""
    ELSE Get(LowerToUpper, SubSeq(str, 1, 1), SubSeq(str, 1, 1))
             \o Upper(SubSeq(str, 2, Len(str)))

\* the texts of the rule table of a category, all levels
DatabaseTexts(category) ==
    UNION {Range(recommendation_database[category][level]) :
               level \in DOMAIN recommendation_database[category]}

\* a sentence around each keyword of the category's table, the keyword written
\* as in the table, in lower case and in upper case, and sentences holding
\* two keywords of the table
KeywordTexts(category) ==
    LET table == action_mapping[category]
    IN {"Try " \o k \o " today" :
            k \in UNION {{table[i][1], Lower(table[i][1]), Upper(table[i][1])} :
                             i \in DOMAIN table}}
       \cup {"Try " \o table[j][1] \o " or " \o table[i][1] :
                 i \in DOMAIN table, j \in DOMAIN table}

\* sentences with keywords of both difficulty groups, of one group, of none
DifficultyTexts ==
    {"Switch the bulbs and reduce the heating", "Reduce the heating, then install a heat pump",
     "REDUCE the heating", "Planning ahead saves trips", "Upgrade", "Enjoy the day", ""}

\* the (category, text) pairs passed to _extract_action_key and _estimate_difficulty
TextInputs ==
    {<<category, text>> :
        category \in Categories,
        text \in UNION {DatabaseTexts(c) \cup KeywordTexts(c) : c \in Categories}
                    \cup DifficultyTexts}

\* daily emissions and impact estimates passed to _calculate_priority
PriorityEmissions == {0, 1, 99, 100, 101, 250, 499, 500, MaxEmission}
PriorityImpacts ==
    UNION {Range(impact_estimates[c]) : c \in Categories}
        \cup {0, -1, -499, -2499, -2500, -2501, -3000, 300}

\* recommendation dictionaries a caller may pass to generate_action_plan
PlanItems ==
    {[category |-> "Energy", recommendation |-> "Unplug electronics when not in use",
      impact_estimate |-> impact, priority |-> 1, difficulty |-> d] :
        impact \in {-100, -2000}, d \in Difficulties}

PlanInputs == UNION {[1..n -> PlanItems] : n \in 0..MaxPlanLen}

\* the engine is constructed and the caller holds one input
InitRec ==
    /\ models = EmptyMap
    /\ scalers = EmptyMap
    /\ encoders = EmptyMap
    /\ feature_names = <<>>
    /\ train = Idle
    /\ nTrain = 0
    /\ db = EmptyDb
    /\ dm = NoDm
    /\ rnd = Unseeded
    /\ gen = NoGen
    /\ out = NoOut
    /\ calc = NoCalc
    /\ \/ \E fp \in FootprintInputs \cup {NoHistoryFootprint} :
              rec = [NoRec EXCEPT !.op = "footprint", !.footprint = fp]
       \/ \E l \in PlanInputs : rec = [NoRec EXCEPT !.op = "list", !.list = l]
       \/ \E h \in PatternHistories : rec = [NoRec EXCEPT !.op = "history", !.history = h]
       \/ \E t \in TextInputs :
              rec = [NoRec EXCEPT !.op = "text", !.category = t[1], !.text = t[2]]
       \/ \E e \in PriorityEmissions, i \in PriorityImpacts :
              rec = [NoRec EXCEPT !.op = "score", !.emissions = e, !.impact = i]
    /\ fc = NoFc

\* the caller asks for recommendations for its footprint
Recommend ==
    /\ rec.op = "footprint"
    /\ LET r == get_personalized_recommendations(rec.footprint)
       IN rec' = [rec EXCEPT !.op = "recommend", !.kind = r.kind, !.err = r.err,
                             !.list = r.list]
    /\ UNCHANGED <<models, scalers, encoders, feature_names, train, nTrain, out, calc, fc, db, dm, rnd, gen>>

\* the caller builds the action plan of a recommendation list
ActionPlan ==
    /\ \/ rec.op = "list"
       \/ rec.op = "recommend" /\ rec.kind = "return"
    /\ rec' = [rec EXCEPT !.op = "plan", !.kind = "return",
                          !.plan = generate_action_plan(rec.list)]
    /\ UNCHANGED <<models, scalers, encoders, feature_names, train, nTrain, out, calc, fc, db, dm, rnd, gen>>

\* the page asks for the tips of the week for its footprint
WeeklyTips(week_number, current_month) ==
    /\ rec.op = "footprint"
    /\ LET r == generate_weekly_tips(rec.footprint, week_number, current_month)
       IN rec' = [rec EXCEPT !.op = "weekly_tips", !.kind = r.kind, !.err = r.err,
                             !.tips = r.tips]
    /\ UNCHANGED <<models, scalers, encoders, feature_names, train, nTrain, out, calc, fc, db, dm, rnd, gen>>

\* the page compares its footprint with the benchmarks
Benchmark ==
    /\ rec.op = "footprint"
    /\ rec' = [rec EXCEPT !.op = "benchmark", !.kind = "return",
                          !.comparisons = benchmark_against_peers(rec.footprint)]
    /\ UNCHANGED <<models, scalers, encoders, feature_names, train, nTrain, out, calc, fc, db, dm, rnd, gen>>

\* the action key of a text is looked up, as get_personalized_recommendations
\* and calculate_roi_recommendations do
ExtractActionKey ==
    /\ rec.op = "text"
    /\ rec' = [rec EXCEPT !.op = "action_key", !.kind = "return",
                          !.action_key = _extract_action_key(rec.text, rec.category)]
    /\ UNCHANGED <<models, scalers, encoders, feature_names, train, nTrain, out, calc, fc,
                   db, dm, rnd, gen>>

\* the difficulty of a text is estimated
EstimateDifficulty ==
    /\ rec.op = "text"
    /\ rec' = [rec EXCEPT !.op = "difficulty", !.kind = "return",
                          !.difficulty = _estimate_difficulty(rec.text)]
    /\ UNCHANGED <<models, scalers, encoders, feature_names, train, nTrain, out, calc, fc,
                   db, dm, rnd, gen>>

\* the priority of an (emissions, impact) pair is computed
CalculatePriority ==
    /\ rec.op = "score"
    /\ rec' = [rec EXCEPT !.op = "priority", !.kind = "return",
                          !.priority = _calculate_priority(rec.emissions, rec.impact)]
    /\ UNCHANGED <<models, scalers, encoders, feature_names, train, nTrain, out, calc, fc,
                   db, dm, rnd, gen>>

\* the page analyses the history of its user
AnalyzePattern ==
    /\ rec.op = "history"
    /\ LET r == analyze_user_pattern(rec.history)
       IN rec' = [rec EXCEPT !.op = "patterns", !.kind = "return",
                             !.patterns = r.patterns, !.opportunities = r.opportunities]
    /\ UNCHANGED <<models, scalers, encoders, feature_names, train, nTrain, out, calc, fc,
                   db, dm, rnd, gen>>

NextRec ==
    \/ AnalyzePattern
    \/ Recommend
    \/ ActionPlan
    \/ ExtractActionKey
    \/ EstimateDifficulty
    \/ CalculatePriority
    \/ \E week_number \in WeekNumbers, current_month \in Months :
           WeeklyTips(week_number, current_month)
    \/ Benchmark

SpecRec == InitRec /\ [][NextRec]_vars

(***************************************************************************)
(* Recommendation claims                                                   *)
(***************************************************************************)
\* C7: recommend returns at most 8 items, and no returned item belongs to
\* the total pseudo-category.
C7_AtMostEightNoTotal ==
    rec.op = "recommend" =>
        /\ rec.kind = "return"
        /\ Len(rec.list) <= 8
        /\ \A i \in DOMAIN rec.list : Lower(rec.list[i].category) # "total"

\* a breakdown with all four categories and total yields the full 8 items
C7_Witness ==
    /\ rec.op = "recommend"
    /\ \E i \in DOMAIN rec.footprint : rec.footprint[i][1] = "total"
    /\ Len(rec.list) = 8

\* the sum of |impact_estimate| over the items of a list, by position
RECURSIVE AbsImpactUpTo(_, _)
AbsImpactUpTo(actions, n) ==
    IF n = 0 THEN 0
    ELSE AbsImpactUpTo(actions, n - 1) + Abs(actions[n].impact_estimate)

PhaseConsistent(phase) ==
    /\ phase.expected_reduction = AbsImpactUpTo(phase.actions, Len(phase.actions))
    /\ phase.actions = <<>> => phase.expected_reduction = 0

\* C8: each phase's expected_reduction is the sum of |impact_estimate| over
\* exactly the actions selected into the phase (0 for an empty phase), and
\* total_potential_reduction is the sum of the three phase values.
C8_PlanReductionsAddUp ==
    rec.op = "plan" =>
        /\ rec.kind = "return"
        /\ PhaseConsistent(rec.plan.weeks_1_2)
        /\ PhaseConsistent(rec.plan.weeks_3_6)
        /\ PhaseConsistent(rec.plan.weeks_7_12)
        /\ rec.plan.total_potential_reduction =
               rec.plan.weeks_1_2.expected_reduction
                   + rec.plan.weeks_3_6.expected_reduction
                   + rec.plan.weeks_7_12.expected_reduction

\* more Low items than the phase takes, and a phase left empty
C8_Witness ==
    /\ rec.op = "plan"
    /\ Len(FilterDifficulty(rec.list, "Low")) > 3
    /\ Len(rec.plan.weeks_1_2.actions) = 3
    /\ rec.plan.weeks_1_2.expected_reduction > 0
    /\ rec.plan.weeks_3_6.actions = <<>>

\* the positions of a list that hold an item of the given difficulty
PositionsOf(list, difficulty) == {i \in DOMAIN list : list[i].difficulty = difficulty}

\* the position of the k-th item of the given difficulty
KthPosition(list, difficulty, k) ==
    CHOOSE i \in PositionsOf(list, difficulty) :
        Cardinality({j \in PositionsOf(list, difficulty) : j < i}) = k - 1

\* the actions are the first min(n, count) items of the difficulty, in list order
FirstOfDifficulty(actions, list, difficulty, n) ==
    /\ Len(actions) = Min(n, Cardinality(PositionsOf(list, difficulty)))
    /\ \A k \in DOMAIN actions : actions[k] = list[KthPosition(list, difficulty, k)]

C17_KeywordDifficulty ==
    "Switch to an electric or hybrid vehicle - can reduce emissions by 40-60%" :> "High"
        @@ "Use public transportation for daily commutes" :> "Low"

\* C17: when the transportation emission of the breakdown is above 100,
\* whatever the other values, recommend returns a list whose transportation
\* items all come from the high-emission list of transportation, and it
\* holds at least one of them; the difficulty of each is the one its text
\* keywords give, whatever the emissions.
C17_HighTransportationSurfaced ==
    (/\ rec.op = "recommend"
     /\ \E i \in DOMAIN rec.footprint :
            rec.footprint[i][1] = "transportation" /\ rec.footprint[i][2] > 100) =>
        /\ rec.kind = "return"
        /\ \E j \in DOMAIN rec.list : rec.list[j].category = "Transportation"
        /\ \A j \in DOMAIN rec.list :
               rec.list[j].category = "Transportation" =>
                   /\ rec.list[j].recommendation \in DOMAIN C17_KeywordDifficulty
                   /\ rec.list[j].difficulty
                          = C17_KeywordDifficulty[rec.list[j].recommendation]

\* transportation just above the cutoff while the other three categories are
\* at their largest: the list is full and still holds a transportation item
C17_Witness ==
    /\ rec.op = "recommend"
    /\ \E i \in DOMAIN rec.footprint : rec.footprint[i] = <<"transportation", 101>>
    /\ \E i \in DOMAIN rec.footprint : rec.footprint[i] = <<"energy", MaxEmission>>
    /\ Len(rec.list) = 8
    /\ \E j \in DOMAIN rec.list :
           rec.list[j].category = "Transportation" /\ rec.list[j].difficulty = "Low"

\* C11: for a breakdown lacking any subset of the category keys, including
\* the breakdown holding only total, recommend, generate_weekly_tips and
\* benchmark each return a result instead of raising.
C11_IncompleteBreakdownNeverRaises ==
    rec.op \in {"recommend", "weekly_tips", "benchmark"} => rec.kind = "return"

\* the number of positions of a list that hold x
Count(list, x) == Cardinality({i \in DOMAIN list : list[i] = x})

\* the key of a is not smaller than the key of b
KeyNotSmaller(a, b) ==
    \/ a.priority > b.priority
    \/ a.priority = b.priority /\ Abs(a.impact_estimate) >= Abs(b.impact_estimate)

\* C21: in the list recommend returns, of every two adjacent items the earlier
\* one has the higher priority, or the same priority and an |impact_estimate|
\* that is not smaller; and the list holds the first 8 of all candidates in
\* that order: min(8, number of candidates) candidates, none of the
\* candidates left out having a larger key than a returned one.
C21_SortedTopEight ==
    (rec.op = "recommend" /\ rec.kind = "return") =>
        LET candidates == CollectRecommendations(rec.footprint).list
        IN /\ \A i \in 1..(Len(rec.list) - 1) : KeyNotSmaller(rec.list[i], rec.list[i + 1])
           /\ Len(rec.list) = Min(8, Len(candidates))
           /\ \A x \in Range(rec.list) : Count(rec.list, x) <= Count(candidates, x)
           /\ \A x \in Range(candidates) :
                  Count(rec.list, x) < Count(candidates, x) =>
                      \A i \in DOMAIN rec.list : KeyNotSmaller(rec.list[i], x)

\* two returned items of one priority and different impact, behind an item of
\* a higher priority
C21_Witness ==
    /\ rec.op = "recommend"
    /\ Len(rec.list) = 8
    /\ \E i \in 2..7 :
           /\ rec.list[i - 1].priority > rec.list[i].priority
           /\ rec.list[i].priority = rec.list[i + 1].priority
           /\ Abs(rec.list[i].impact_estimate) > Abs(rec.list[i + 1].impact_estimate)

C23_CaseInsensitiveKeywordMatch ==
    rec.op = "action_key" =>
        LET table == action_mapping[rec.category]
            has(i) == Contains(Lower(table[i][1]), Lower(rec.text))
        IN /\ \A i \in DOMAIN table :
                  (has(i) /\ \A j \in 1..(i - 1) : ~has(j)) => rec.action_key = table[i][2]
           /\ (\A i \in DOMAIN table : ~has(i)) => rec.action_key = table[1][2]

\* C24: the difficulty of a text is High if its lower-cased form contains
\* switch, install, upgrade or renewable, else Medium if it contains reduce,
\* increase, improve or plan, else Low.
C24_DifficultyByKeywords ==
    rec.op = "difficulty" =>
        LET low == Lower(rec.text)
            high_hit == \E k \in {"switch", "install", "upgrade", "renewable"} : Contains(k, low)
            medium_hit == \E k \in {"reduce", "increase", "improve", "plan"} : Contains(k, low)
        IN /\ rec.difficulty \in {"Low", "Medium", "High"}
           /\ high_hit => rec.difficulty = "High"
           /\ (~high_hit /\ medium_hit) => rec.difficulty = "Medium"
           /\ (~high_hit /\ ~medium_hit) => rec.difficulty = "Low"

\* a text with a capitalised High keyword and a Medium keyword
C24_Witness ==
    /\ rec.op = "difficulty"
    /\ rec.text = "Switch the bulbs and reduce the heating"
    /\ rec.difficulty = "High"

\* C25: every item recommend returns carries a strictly negative
\* impact_estimate.
C25_ImpactStrictlyNegative ==
    (rec.op = "recommend" /\ rec.kind = "return") =>
        \A i \in DOMAIN rec.list : rec.list[i].impact_estimate < 0

\* all four categories at the low level: eight texts, some without any keyword
C25_Witness ==
    /\ rec.op = "recommend"
    /\ Len(rec.list) = 8
    /\ \A i \in DOMAIN rec.footprint : rec.footprint[i][2] = 0
    /\ \E i \in DOMAIN rec.list :
           \A k \in DOMAIN action_mapping.food :
               ~Contains(action_mapping.food[k][1], Lower(rec.list[i].recommendation))

\* C26: for each category of the breakdown the list of the rule table for the
\* classified level holds 8 entries, and the returned items of the category
\* are the first 2 entries of that list.
C26_EightEntriesFirstTwoTaken ==
    (rec.op = "recommend" /\ rec.kind = "return") =>
        \A k \in DOMAIN rec.footprint :
            rec.footprint[k][1] \in Categories =>
                LET category == rec.footprint[k][1]
                    ranked == recommendation_database[category]
                                  [EmissionLevel(category, rec.footprint[k][2])]
                IN /\ Len(ranked) = 8
                   /\ {rec.list[i].recommendation :
                          i \in {j \in DOMAIN rec.list :
                                    rec.list[j].category = Title(category)}}
                          = {ranked[1], ranked[2]}

\* the total emissions of the rows lo..hi of a history
RECURSIVE TotalOver(_, _, _)
TotalOver(h, lo, hi) ==
    IF lo > hi THEN 0 ELSE h[lo].total_emissions + TotalOver(h, lo + 1, hi)

\* the total emissions and the number of the rows of a history that fall on a weekday
RECURSIVE WeekdayTotal(_, _, _)
WeekdayTotal(h, d, i) ==
    IF i = 0 THEN <<0, 0>>
    ELSE LET r == WeekdayTotal(h, d, i - 1)
         IN IF DayNames[(h[i].date % 7) + 1] = d
            THEN <<r[1] + h[i].total_emissions, r[2] + 1>>
            ELSE r

\* the emissions of one category summed over a history
RECURSIVE CategoryTotal(_, _, _)
CategoryTotal(h, c, i) ==
    IF i = 0 THEN 0 ELSE EmissionColumn(c, h[i]) + CategoryTotal(h, c, i - 1)

\* C27: analyze_user_pattern on a history of n >= 1 days reports first a
\* category of the highest average; a trend observation exactly when n >= 7,
\* which is "increasing" (with one opportunity note) when the mean of the
\* last 7 days is more than 10% above that of the first 7, "decreasing" when
\* it is more than 10% below, and "stable" otherwise; the highest and the
\* lowest weekday exactly when n >= 14, with the habit-transfer opportunity
\* only when the highest weekday mean exceeds 1.5 times the lowest.  So it
\* reports 1, 2 or 4 patterns.
C27_PatternsByHistoryLength ==
    rec.op = "patterns" =>
        LET h == rec.history
            n == Len(h)
            p == rec.patterns
            o == rec.opportunities
            recent == TotalOver(h, n - 6, n)
            older == TotalOver(h, 1, 7)
            days == {DayNames[(h[i].date % 7) + 1] : i \in 1..n}
            focus == "Focus on reducing daily activities that contribute most to emissions"
            has(list, x) == \E i \in DOMAIN list : list[i] = x
        IN /\ n >= 1
           /\ \E c \in Categories :
                 /\ p[1] = "Your highest emissions come from " \o c
                 /\ \A d \in Categories : CategoryTotal(h, c, n) >= CategoryTotal(h, d, n)
           /\ Len(p) = (IF n < 7 THEN 1 ELSE IF n < 14 THEN 2 ELSE 4)
           /\ n >= 7 =>
                 /\ 10 * recent > 11 * older
                        => p[2] = "Your emissions have been increasing recently"
                 /\ 10 * recent < 9 * older
                        => p[2] = "Great! Your emissions have been decreasing"
                 /\ (10 * recent <= 11 * older /\ 10 * recent >= 9 * older)
                        => p[2] = "Your emissions have been relatively stable"
           /\ has(o, focus) <=> (n >= 7 /\ 10 * recent > 11 * older)
           /\ n < 14 => Len(o) = (IF has(o, focus) THEN 1 ELSE 0)
           /\ n >= 14 =>
                 \E hi \in days, lo \in days :
                    LET mh == WeekdayTotal(h, hi, n)
                        ml == WeekdayTotal(h, lo, n)
                        more == 2 * mh[1] * ml[2] > 3 * ml[1] * mh[2]
                        habit == "Try to replicate your " \o lo \o " habits on " \o hi
                    IN /\ p[3] = "Your highest emission day is typically " \o hi
                       /\ p[4] = "Your lowest emission day is typically " \o lo
                       /\ \A d \in days :
                             LET md == WeekdayTotal(h, d, n)
                             IN /\ md[1] * mh[2] <= mh[1] * md[2]
                                /\ md[1] * ml[2] >= ml[1] * md[2]
                       /\ has(o, habit) <=> more
                       /\ Len(o) = (IF has(o, focus) THEN 1 ELSE 0) + (IF more THEN 1 ELSE 0)

\* a fortnight whose last week is higher and whose Saturdays stand out: four
\* patterns and both opportunities
C27_Witness ==
    /\ rec.op = "patterns"
    /\ Len(rec.history) >= 14
    /\ Len(rec.patterns) = 4
    /\ rec.patterns[2] = "Your emissions have been increasing recently"
    /\ Len(rec.opportunities) = 2


(***************************************************************************)
(* CarbonFootprintPredictor.predict_future_trend                           *)
(*                                                                         *)
(* The fitted slope is the rational SlopeNum / SlopeDen and the noise is a *)
(* multiple z of the standard deviation 0.05 * |projected|, so every value *)
(* of a forecast is given as an integer numerator over the common          *)
(* denominator den (1 on the flat path, 20 * SlopeDen on the trend path).  *)
(***************************************************************************)
MaxHist == 8        \* longest history enumerated exhaustively
MaxDays == 3        \* days_ahead ranges over 0..MaxDays

\* historical_data[-30:]
TrendWindow == 30

\* daily totals stored for a user (kg), never negative
HistoryValues == {0, 4}

\* multiples of the standard deviation that np.random.normal may return
NoiseZ == {-25, 0, 1}

\* list[-n:]
LastN(list, n) == SubSeq(list, Max(1, Len(list) - n + 1), Len(list))

RECURSIVE SumSeq(_)
SumSeq(list) == IF list = <<>> THEN 0 ELSE list[1] + SumSeq(Tail(list))

\* np.polyfit(x, recent_data, 1)[0] for x = 0..k-1 : the least-squares slope
\*   (k * sum(x*y) - sum(x) * sum(y)) / (k * sum(x^2) - sum(x)^2)
SlopeNum(recent_data) ==
    LET k == Len(recent_data)
    IN k * SumSeq([i \in 1..k |-> (i - 1) * recent_data[i]])
           - SumSeq([i \in 1..k |-> i - 1]) * SumSeq(recent_data)

SlopeDen(recent_data) ==
    LET k == Len(recent_data)
        sx == SumSeq([i \in 1..k |-> i - 1])
    IN k * SumSeq([i \in 1..k |-> (i - 1) * (i - 1)]) - sx * sx

\* a variant of the low-data test with the cutoff one day lower
ShortHistory_Six(historical_data) == Len(historical_data) < 6

\* "len(historical_data) < 7"
ShortHistory(historical_data) == Len(historical_data) < 7

\* a variant that appends the projected value without the floor
FloorAtZero_None(x) == x

\* max(0, x)
FloorAtZero(x) == Max(0, x)

\* predict_future_trend(historical_data, days_ahead); z[i] is the noise drawn in step i
predict_future_trend(historical_data, days_ahead, z) ==
    IF ShortHistory(historical_data)
    THEN IF historical_data = <<>>
         THEN [kind |-> "raise", err |-> "IndexError", values |-> <<>>, den |-> 1]
         ELSE [kind |-> "return", err |-> "",
               values |-> [i \in 1..days_ahead |-> historical_data[Len(historical_data)]],
               den |-> 1]
    ELSE LET recent_data == LastN(historical_data, TrendWindow)
             num == SlopeNum(recent_data)
             den == SlopeDen(recent_data)
             last_value == historical_data[Len(historical_data)]
             \* projected_value, times den
             projected(i) == last_value * den + num * i
             \* (projected_value + variation), times 20 * den
             noisy(i) == 20 * projected(i) + z[i] * Abs(projected(i))
         IN [kind |-> "return", err |-> "",
             values |-> [i \in 1..days_ahead |-> FloorAtZero(noisy(i))],
             den |-> 20 * den]

\* histories longer than the trend window: a level series with two early
\* outliers, and a steady decline
LongHistories ==
    {[i \in 1..(TrendWindow + 2) |-> IF i <= 2 THEN 90 ELSE 4],
     [i \in 1..(TrendWindow + 2) |-> TrendWindow + 2 - i]}

Histories == (UNION {[1..n -> HistoryValues] : n \in 0..MaxHist}) \cup LongHistories

\* the caller holds a history and a horizon
InitForecast ==
    /\ models = EmptyMap
    /\ scalers = EmptyMap
    /\ encoders = EmptyMap
    /\ feature_names = <<>>
    /\ train = Idle
    /\ nTrain = 0
    /\ db = EmptyDb
    /\ dm = NoDm
    /\ rnd = Unseeded
    /\ gen = NoGen
    /\ out = NoOut
    /\ calc = NoCalc
    /\ rec = NoRec
    /\ \E h \in Histories : \E d \in 0..MaxDays :
          fc = [NoFc EXCEPT !.op = "input", !.history = h, !.days_ahead = d]

\* the caller asks for the forecast; the noise of each step is drawn here
Forecast ==
    /\ fc.op = "input"
    /\ \E z \in [1..fc.days_ahead -> NoiseZ] :
          LET r == predict_future_trend(fc.history, fc.days_ahead, z)
          IN fc' = [fc EXCEPT !.op = "forecast", !.kind = r.kind, !.err = r.err,
                              !.values = r.values, !.den = r.den]
    /\ UNCHANGED <<models, scalers, encoders, feature_names, train, nTrain, out, calc, rec, db, dm, rnd, gen>>

NextForecast == Forecast

SpecForecast == InitForecast /\ [][NextForecast]_vars

(***************************************************************************)
(* Forecast claims                                                         *)
(***************************************************************************)
\* C9: for a non-empty history of fewer than 7 values the forecast returns
\* exactly days_ahead values, each equal to the last history value, with no
\* noise added and no error.
C9_ShortHistoryFlat ==
    (fc.op = "forecast" /\ Len(fc.history) \in 1..6) =>
        /\ fc.kind = "return"
        /\ Len(fc.values) = fc.days_ahead
        /\ fc.den = 1
        /\ \A i \in DOMAIN fc.values : fc.values[i] = fc.history[Len(fc.history)]

\* six days of history, the last one non-zero, several days asked for
C9_Witness ==
    /\ fc.op = "forecast"
    /\ Len(fc.history) = 6
    /\ fc.history[6] > 0
    /\ fc.days_ahead >= 2
    /\ Len(fc.values) = fc.days_ahead

MaxStored == 3      \* rows in daily_footprints
MaxDaysAsked == 3   \* largest days argument of get_footprint_history

UserIds == {1, 2}
Dates == {<<2023, 12, 31>>, <<2024, 1, 15>>, <<2024, 2, 1>>}

\* a full breakdown and one without the food and waste categories
FootprintData ==
    {[transportation |-> 10, energy |-> 27, food |-> 6, waste |-> 1, total |-> 44],
     [transportation |-> 3, energy |-> 4, total |-> 7]}

\* comparison of two DATE texts
DateLess(a, b) ==
    \/ a[1] < b[1]
    \/ a[1] = b[1] /\ a[2] < b[2]
    \/ a[1] = b[1] /\ a[2] = b[2] /\ a[3] < b[3]

\* the five emission columns bound from footprint_data.get(key, 0)
EmissionColumns(footprint_data) ==
    [transportation_emissions |-> Get(footprint_data, "transportation", 0),
     energy_emissions |-> Get(footprint_data, "energy", 0),
     food_emissions |-> Get(footprint_data, "food", 0),
     waste_emissions |-> Get(footprint_data, "waste", 0),
     total_emissions |-> Get(footprint_data, "total", 0)]

\* a variant whose lookup never finds the record of the date
RowExists_Never(rows, user_id, date) == FALSE

\* SELECT id FROM daily_footprints WHERE user_id = ? AND date = ? finds a row
RowExists(rows, user_id, date) ==
    \E i \in DOMAIN rows : rows[i].user_id = user_id /\ rows[i].date = date

\* UPDATE ... WHERE user_id = ? AND date = ?
UpdateRows(rows, user_id, date, footprint_data) ==
    LET c == EmissionColumns(footprint_data)
    IN [i \in DOMAIN rows |->
           IF rows[i].user_id = user_id /\ rows[i].date = date
           THEN [rows[i] EXCEPT !.transportation_emissions = c.transportation_emissions,
                                !.energy_emissions = c.energy_emissions,
                                !.food_emissions = c.food_emissions,
                                !.waste_emissions = c.waste_emissions,
                                !.total_emissions = c.total_emissions]
           ELSE rows[i]]

\* INSERT INTO daily_footprints: the new row takes the next AUTOINCREMENT id
InsertRow(store, user_id, date, footprint_data) ==
    LET c == EmissionColumns(footprint_data)
    IN [daily_footprints |->
            Append(store.daily_footprints,
                   [id |-> store.seq + 1, user_id |-> user_id, date |-> date,
                    transportation_emissions |-> c.transportation_emissions,
                    energy_emissions |-> c.energy_emissions,
                    food_emissions |-> c.food_emissions,
                    waste_emissions |-> c.waste_emissions,
                    total_emissions |-> c.total_emissions]),
        seq |-> store.seq + 1]

save_daily_footprint(store, user_id, date, footprint_data) ==
    IF RowExists(store.daily_footprints, user_id, date)
    THEN [store EXCEPT !.daily_footprints =
                           UpdateRows(store.daily_footprints, user_id, date, footprint_data)]
    ELSE InsertRow(store, user_id, date, footprint_data)

\* WHERE user_id = ?
RECURSIVE UserRows(_, _)
UserRows(rows, user_id) ==
    IF rows = <<>> THEN <<>>
    ELSE IF rows[1].user_id = user_id
    THEN <<rows[1]>> \o UserRows(Tail(rows), user_id)
    ELSE UserRows(Tail(rows), user_id)

\* a variant that orders the oldest date first
RECURSIVE InsertByDateDesc_Asc(_, _)
InsertByDateDesc_Asc(row, sorted) ==
    IF sorted = <<>> THEN <<row>>
    ELSE IF DateLess(sorted[1].date, row.date)
    THEN <<sorted[1]>> \o InsertByDateDesc_Asc(row, Tail(sorted))
    ELSE <<row>> \o sorted

\* ORDER BY date DESC: row goes before the first row of a smaller date
RECURSIVE InsertByDateDesc(_, _)
InsertByDateDesc(row, sorted) ==
    IF sorted = <<>> THEN <<row>>
    ELSE IF DateLess(sorted[1].date, row.date) THEN <<row>> \o sorted
    ELSE <<sorted[1]>> \o InsertByDateDesc(row, Tail(sorted))

RECURSIVE OrderByDateDesc(_)
OrderByDateDesc(rows) ==
    IF rows = <<>> THEN <<>>
    ELSE InsertByDateDesc(rows[Len(rows)], OrderByDateDesc(SubSeq(rows, 1, Len(rows) - 1)))

\* LIMIT ?: a negative limit means no limit
Limit(rows, n) == IF n < 0 THEN rows ELSE Take(rows, n)

\* SELECT date, transportation_emissions, ..., total_emissions
SelectColumns(row) ==
    [date |-> row.date,
     transportation_emissions |-> row.transportation_emissions,
     energy_emissions |-> row.energy_emissions,
     food_emissions |-> row.food_emissions,
     waste_emissions |-> row.waste_emissions,
     total_emissions |-> row.total_emissions]

\* df.sort_values('date'): ascending, row goes after the rows of a date not larger
RECURSIVE InsertByDateAsc(_, _)
InsertByDateAsc(row, sorted) ==
    IF sorted = <<>> THEN <<row>>
    ELSE IF DateLess(row.date, sorted[1].date) THEN <<row>> \o sorted
    ELSE <<sorted[1]>> \o InsertByDateAsc(row, Tail(sorted))

RECURSIVE sort_values(_)
sort_values(df) ==
    IF df = <<>> THEN <<>>
    ELSE InsertByDateAsc(df[Len(df)], sort_values(SubSeq(df, 1, Len(df) - 1)))

get_footprint_history(store, user_id, days) ==
    LET selected == Limit(OrderByDateDesc(UserRows(store.daily_footprints, user_id)), days)
        df == [i \in DOMAIN selected |-> SelectColumns(selected[i])]
    IN sort_values(df)

\* a new database file
InitData ==
    /\ models = EmptyMap
    /\ scalers = EmptyMap
    /\ encoders = EmptyMap
    /\ feature_names = <<>>
    /\ train = Idle
    /\ nTrain = 0
    /\ out = NoOut
    /\ calc = NoCalc
    /\ rec = NoRec
    /\ fc = NoFc
    /\ db = EmptyDb
    /\ dm = NoDm
    /\ rnd = Unseeded
    /\ gen = NoGen

\* one save_daily_footprint call, from its SELECT to the commit
Save(user_id, date, footprint_data) ==
    /\ RowExists(db.daily_footprints, user_id, date) \/ Len(db.daily_footprints) < MaxStored
    /\ db' = save_daily_footprint(db, user_id, date, footprint_data)
    /\ dm' = [NoDm EXCEPT !.op = "save", !.user_id = user_id, !.date = date,
                          !.footprint_data = footprint_data, !.pre = db]
    /\ UNCHANGED <<models, scalers, encoders, feature_names, train, nTrain, out, calc, rec, fc,
                   rnd, gen>>

\* one get_footprint_history call
History(user_id, days) ==
    /\ dm' = [NoDm EXCEPT !.op = "history", !.user_id = user_id, !.days = days,
                          !.history = get_footprint_history(db, user_id, days)]
    /\ UNCHANGED <<models, scalers, encoders, feature_names, train, nTrain, out, calc, rec, fc,
                   db, rnd, gen>>

NextData ==
    \/ \E user_id \in UserIds, date \in Dates, footprint_data \in FootprintData :
           Save(user_id, date, footprint_data)
    \/ \E user_id \in UserIds, days \in 0..MaxDaysAsked : History(user_id, days)

SpecData == InitData /\ [][NextData]_vars

\* ---- save_daily_footprint from two sessions ----
\* Each session runs save_daily_footprint on a connection of its own.  The
\* sqlite3 module opens a transaction only before the INSERT or UPDATE, so
\* the SELECT is a step by itself and holds no lock once fetchone returned;
\* the write and the commit at the end of the with-block are one step, as
\* SQLite lets one connection write at a time.
Sessions == {1, 2}

\* today's date, the one the pages save under
Today == <<2024, 1, 15>>

IdleSession == [pc |-> "idle", user_id |-> 0, date |-> <<>>, footprint_data |-> EmptyMap,
                existing |-> FALSE]

\* rows that selects which found nothing are about to insert
PendingInserts ==
    Cardinality({s \in Sessions : dm.sessions[s].pc = "selected" /\ ~dm.sessions[s].existing})

InitSessions ==
    /\ models = EmptyMap
    /\ scalers = EmptyMap
    /\ encoders = EmptyMap
    /\ feature_names = <<>>
    /\ train = Idle
    /\ nTrain = 0
    /\ out = NoOut
    /\ calc = NoCalc
    /\ rec = NoRec
    /\ fc = NoFc
    /\ db = EmptyDb
    /\ dm = [NoDm EXCEPT !.op = "sessions", !.sessions = [s \in Sessions |-> IdleSession]]
    /\ rnd = Unseeded
    /\ gen = NoGen

\* save_daily_footprint, first statement: the SELECT and fetchone
SaveSelect(s, user_id, date, footprint_data) ==
    /\ dm.sessions[s].pc = "idle"
    /\ \/ RowExists(db.daily_footprints, user_id, date)
       \/ Len(db.daily_footprints) + PendingInserts < MaxStored
    /\ dm' = [dm EXCEPT !.sessions[s] =
                  [pc |-> "selected", user_id |-> user_id, date |-> date,
                   footprint_data |-> footprint_data,
                   existing |-> RowExists(db.daily_footprints, user_id, date)]]
    /\ UNCHANGED <<models, scalers, encoders, feature_names, train, nTrain, out, calc, rec, fc,
                   db, rnd, gen>>

\* save_daily_footprint, second statement and commit: UPDATE if the SELECT
\* had found a row, INSERT otherwise
SaveWrite(s) ==
    LET c == dm.sessions[s] IN
    /\ c.pc = "selected"
    /\ db' = IF c.existing
             THEN [db EXCEPT !.daily_footprints =
                      UpdateRows(db.daily_footprints, c.user_id, c.date, c.footprint_data)]
             ELSE InsertRow(db, c.user_id, c.date, c.footprint_data)
    /\ dm' = [dm EXCEPT !.sessions[s] = IdleSession]
    /\ UNCHANGED <<models, scalers, encoders, feature_names, train, nTrain, out, calc, rec, fc,
                   rnd, gen>>

NextSessions ==
    \/ \E s \in Sessions, user_id \in UserIds, footprint_data \in FootprintData :
           SaveSelect(s, user_id, Today, footprint_data)
    \/ \E s \in Sessions : SaveWrite(s)

SpecSessions == InitSessions /\ [][NextSessions]_vars

(***************************************************************************)
(* DataManager claims                                                      *)
(***************************************************************************)
SameKey(row, user_id, date) == row.user_id = user_id /\ row.date = date

\* C12: after any sequence of saves executed one after another the store
\* holds at most one row per (user_id, date); the row of the key just saved
\* holds the values of that save; the rows of the other keys are the ones
\* held before the save; and repeating the save leaves the store unchanged.
C12_IdempotentUpsert ==
    LET rows == db.daily_footprints
    IN /\ \A i, j \in DOMAIN rows :
              SameKey(rows[i], rows[j].user_id, rows[j].date) => i = j
       /\ dm.op = "save" =>
              /\ \E i \in DOMAIN rows :
                     /\ SameKey(rows[i], dm.user_id, dm.date)
                     /\ rows[i].transportation_emissions =
                            Get(dm.footprint_data, "transportation", 0)
                     /\ rows[i].energy_emissions = Get(dm.footprint_data, "energy", 0)
                     /\ rows[i].food_emissions = Get(dm.footprint_data, "food", 0)
                     /\ rows[i].waste_emissions = Get(dm.footprint_data, "waste", 0)
                     /\ rows[i].total_emissions = Get(dm.footprint_data, "total", 0)
              /\ {r \in Range(rows) : ~SameKey(r, dm.user_id, dm.date)}
                     = {r \in Range(dm.pre.daily_footprints) : ~SameKey(r, dm.user_id, dm.date)}
              /\ save_daily_footprint(db, dm.user_id, dm.date, dm.footprint_data) = db

\* a save that replaced the values of its key while another key's row exists
C12_Witness ==
    /\ dm.op = "save"
    /\ Len(db.daily_footprints) = Len(dm.pre.daily_footprints)
    /\ db # dm.pre
    /\ \E i \in DOMAIN db.daily_footprints :
           ~SameKey(db.daily_footprints[i], dm.user_id, dm.date)

RowsOf(user_id) == {r \in Range(db.daily_footprints) : r.user_id = user_id}

\* C29: when two save_daily_footprint calls for the same (user_id, date)
\* run on separate connections and their existence checks and writes
\* interleave, daily_footprints still holds at most one row for that key.
C29_OneRowPerKeyAcrossSessions ==
    dm.op = "sessions" =>
        \A i, j \in DOMAIN db.daily_footprints :
            (/\ db.daily_footprints[i].user_id = db.daily_footprints[j].user_id
             /\ db.daily_footprints[i].date = db.daily_footprints[j].date) => i = j

\* C13: get_footprint_history(user_id, days) returns only rows of that user,
\* exactly min(days, number of rows stored for the user) of them, the most
\* recent by date, in ascending date order; and after a save for a user,
\* get_footprint_history(user_id, 1) returns exactly one row.
C13_HistoryMostRecentAscending ==
    /\ dm.op = "history" =>
           LET h == dm.history
               mine == RowsOf(dm.user_id)
           IN /\ Len(h) = Min(dm.days, Cardinality(mine))
              /\ \A i \in DOMAIN h : \E r \in mine : SelectColumns(r) = h[i]
              /\ \A i, j \in DOMAIN h : i < j => DateLess(h[i].date, h[j].date)
              /\ \A r \in mine :
                     (\A i \in DOMAIN h : h[i].date # r.date)
                         => \A i \in DOMAIN h : DateLess(r.date, h[i].date)
    /\ dm.op = "save" =>
           LET h == get_footprint_history(db, dm.user_id, 1)
           IN /\ Len(h) = 1
              /\ \E r \in RowsOf(dm.user_id) : SelectColumns(r) = h[1]

\* two of three rows of a user returned while the other user also has a row,
\* the user's rows having been stored newest first
C13_Witness ==
    /\ dm.op = "history"
    /\ dm.days = 2
    /\ Len(dm.history) = 2
    /\ Cardinality(RowsOf(dm.user_id)) = 3
    /\ DateLess(db.daily_footprints[2].date, db.daily_footprints[1].date)

(***************************************************************************)
(* CarbonFootprintPredictor.generate_synthetic_data and the process-level  *)
(* random source                                                           *)
(*                                                                         *)
(* One draw of the source is a level 0..RawLevels-1 (the quantile of the   *)
(* variate).  The stream that follows seed(42) is fixed but not known: its *)
(* values are chosen when they are first read and kept in rnd.stream, so   *)
(* that a second read of a position sees the same value.  The dataset is   *)
(* drawn column by column, n values per column; the sixteen numeric        *)
(* feature columns are kept as one column holding their contribution to    *)
(* the target.                                                             *)
(***************************************************************************)
MaxN == 2           \* n_samples 0..MaxN
RawLevels == 2      \* levels of one draw

Raw == 0..(RawLevels - 1)

\* arrays drawn per dataset: location_type, vehicle_type, numeric features, noise
DrawnColumns == 4

\* np.random.seed(42): the source restarts at the head of the stream of seed 42
seed(r) == [r EXCEPT !.seeded = TRUE, !.pos = 0]

\* a variant that seeds the source only when it has not been seeded before
reseed_OnlyOnce(r) == IF r.seeded THEN r ELSE seed(r)

\* the seed call at the head of generate_synthetic_data
reseed(r) == seed(r)

\* the number of values a read of k draws takes that no earlier read fixed
FreshCount(r, k) ==
    IF r.seeded THEN Max(0, r.pos + k - Len(r.stream)) ELSE k

\* the k values read from the source, fresh being the values not fixed before
ReadValues(r, k, fresh) ==
    IF r.seeded
    THEN SubSeq(r.stream \o fresh, r.pos + 1, r.pos + k)
    ELSE fresh

\* the source after the read
AfterRead(r, k, fresh) ==
    IF r.seeded
    THEN [r EXCEPT !.pos = r.pos + k, !.stream = r.stream \o fresh]
    ELSE r

\* np.random.choice(list): the element at floor(u * len(list))
Choice(list, u) == list[(u * Len(list)) \div RawLevels + 1]

\* the target before noise, from the numeric feature columns (kg CO2 per year)
TargetBase(u) == 600 + 1200 * u

\* np.random.normal(0, 500): one standard deviation below or above the mean,
\* and symmetric levels in between
TargetNoise(u) == (2 * u - (RawLevels - 1)) * 500

\* a variant that only keeps the target from going negative
FloorTarget_AtZero(x) == Max(x, 0)

\* np.maximum(df['carbon_footprint'], 1000)
FloorTarget(x) == Max(x, 1000)

\* the DataFrame built from the 4 * n_samples values raws
generate_synthetic_data(n_samples, raws) ==
    [i \in 1..n_samples |->
        [location_type |-> Choice(LocationTypes, raws[i]),
         vehicle_type |-> Choice(VehicleTypes, raws[n_samples + i]),
         carbon_footprint |->
             FloorTarget(TargetBase(raws[2 * n_samples + i])
                             + TargetNoise(raws[3 * n_samples + i]))]]

\* a new process: the random source has not been seeded
InitGen ==
    /\ models = EmptyMap
    /\ scalers = EmptyMap
    /\ encoders = EmptyMap
    /\ feature_names = <<>>
    /\ train = Idle
    /\ nTrain = 0
    /\ out = NoOut
    /\ calc = NoCalc
    /\ rec = NoRec
    /\ fc = NoFc
    /\ db = EmptyDb
    /\ dm = NoDm
    /\ rnd = Unseeded
    /\ gen = NoGen

\* one generate_synthetic_data call: seed, draw the columns, build the frame
Generate(n_samples) ==
    LET seeded == reseed(rnd)
        k == DrawnColumns * n_samples
    IN \E fresh \in [1..FreshCount(seeded, k) -> Raw] :
           LET data == generate_synthetic_data(n_samples, ReadValues(seeded, k, fresh))
           IN /\ rnd' = AfterRead(seeded, k, fresh)
              /\ gen' = [op |-> "generate", n |-> n_samples, data |-> data,
                         repeat |-> n_samples \in DOMAIN gen.returned,
                         returned |-> IF n_samples \in DOMAIN gen.returned
                                      THEN gen.returned
                                      ELSE Put(gen.returned, n_samples, data)]
              /\ UNCHANGED <<models, scalers, encoders, feature_names, train, nTrain, out,
                             calc, rec, fc, db, dm>>

\* the trend path of predict_future_trend: one np.random.normal draw per
\* projected day from the same source
ForecastNoise(days_ahead) ==
    /\ rnd.pos + days_ahead <= DrawnColumns * MaxN
    /\ \E fresh \in [1..FreshCount(rnd, days_ahead) -> Raw] :
           rnd' = AfterRead(rnd, days_ahead, fresh)
    /\ gen' = [gen EXCEPT !.op = "forecast", !.n = 0, !.data = <<>>, !.repeat = FALSE]
    /\ UNCHANGED <<models, scalers, encoders, feature_names, train, nTrain, out,
                   calc, rec, fc, db, dm>>

\* train_models on the dataset just generated: train_test_split and the four
\* estimators carry their own random_state=42 and draw nothing from the
\* process-level source
TrainGenerated ==
    /\ gen.op = "generate"
    /\ gen' = [gen EXCEPT !.op = "train", !.n = 0, !.data = <<>>, !.repeat = FALSE]
    /\ UNCHANGED <<models, scalers, encoders, feature_names, train, nTrain, out,
                   calc, rec, fc, db, dm, rnd>>

NextGen ==
    \/ \E n_samples \in 0..MaxN : Generate(n_samples)
    \/ \E days_ahead \in 1..MaxDays : ForecastNoise(days_ahead)
    \/ TrainGenerated

SpecGen == InitGen /\ [][NextGen]_vars

(***************************************************************************)
(* Generator claims                                                        *)
(***************************************************************************)
\* C15: generate(n) returns exactly n samples; in every sample location_type
\* is one of urban, suburban, rural, vehicle_type is one of gasoline, diesel,
\* electric, hybrid, and carbon_footprint is at least 1000.
C15_SamplesInDomain ==
    gen.op = "generate" =>
        /\ Len(gen.data) = gen.n
        /\ \A i \in DOMAIN gen.data :
               /\ gen.data[i].location_type \in {"urban", "suburban", "rural"}
               /\ gen.data[i].vehicle_type \in {"gasoline", "diesel", "electric", "hybrid"}
               /\ gen.data[i].carbon_footprint >= 1000

\* two samples, one raised to the floor and one above it
C15_Witness ==
    /\ gen.op = "generate"
    /\ gen.n = 2
    /\ gen.data[1].carbon_footprint = 1000
    /\ gen.data[2].carbon_footprint > 1000
    /\ gen.data[1].vehicle_type # gen.data[2].vehicle_type

\* C16: a generate(n) call returns the dataset that the first generate(n)
\* call with the same n returned, whatever generate calls with another n,
\* train calls or forecast draws ran in between.
C16_GenerateReproducible ==
    (gen.op = "generate" /\ gen.repeat) => gen.data = gen.returned[gen.n]

\* a repeated generate(2) after a generate(1) and forecast draws that moved
\* the source past the end of the first dataset
C16_Witness ==
    /\ gen.op = "generate"
    /\ gen.repeat
    /\ gen.n = 2
    /\ 1 \in DOMAIN gen.returned
    /\ gen.data[1] # gen.data[2]

(***************************************************************************)
(* CarbonFootprintPredictor: the calls that only read the predictor        *)
(***************************************************************************)
\* the histories and horizons handed to predict_future_trend on the shared
\* predictor: none, one day, and more days than the trend window
TrendInputs ==
    {<<>>, <<4>>, [i \in 1..(TrendWindow + 2) |-> TrendWindow + 2 - i]} \X {0, 1}

\* a caller invokes predict_future_trend on the shared predictor
TrendCall(historical_data, days_ahead) ==
    /\ \E z \in [1..days_ahead -> NoiseZ] :
          LET r == predict_future_trend(historical_data, days_ahead, z)
          IN out' = [NoOut EXCEPT !.op = "forecast", !.kind = r.kind, !.err = r.err,
                                  !.rows = Len(r.values)]
    /\ UNCHANGED <<models, scalers, encoders, feature_names, train, nTrain, calc, rec, fc,
                   db, dm, rnd, gen>>

NextCalls ==
    \/ Next
    \/ \E t \in TrendInputs : TrendCall(t[1], t[2])

SpecCalls == Init /\ [][NextCalls]_vars

\* C30: predict, feature_importance and forecast, whether they return or
\* raise, leave the trained variants, the encoders, the scaler and the
\* feature list as they were; a step that changes any of them is a step of
\* train_models or a load_models call.
C30_ReadOnlyCalls ==
    [][/\ (\/ /\ out'.op = "predict"
               /\ \E variant \in VariantInputs, user_data \in UserData :
                      Predict(variant, user_data)
            \/ /\ out'.op = "importance"
               /\ \E model_name \in VariantInputs : FeatureImportance(model_name)
            \/ /\ out'.op = "forecast"
               /\ \E t \in TrendInputs : TrendCall(t[1], t[2]))
               => UNCHANGED <<models, scalers, encoders, feature_names>>
       /\ <<models, scalers, encoders, feature_names>>' # <<models, scalers, encoders,
                                                             feature_names>>
               => (train.pc # "idle" \/ out'.op = "load")]_vars

\* after a complete training on a one-class dataset, a predict with a
\* categorical value the encoders never saw has raised
C30_Witness ==
    /\ out.op = "predict"
    /\ out.kind = "raise"
    /\ out.msg = "y contains previously unseen labels"
    /\ train.pc = "idle"
    /\ DOMAIN models = Variants
    /\ \A c \in DOMAIN encoders : Cardinality(encoders[c].classes) = 1

====
